---- MODULE Spec2Model ----
(***************************************************************************)
(* Financial Transaction Analytics System.                                 *)
(*                                                                         *)
(* Part I  : the account ledger (Account, CheckingAccount, SavingsAccount, *)
(*           CreditAccount) as a state machine over one account object.    *)
(* Part II : the TransactionCleaner batch pipeline.                        *)
(*                                                                         *)
(* Money is kept in integer cents.  round(x, 2) of the source is the       *)
(* round-half-to-even of the exact quotient, in cents.                     *)
(* Rates are kept in basis points: interest_rate 0.04 is 400, apr 19.99 is *)
(* 1999.                                                                   *)
(***************************************************************************)
EXTENDS Integers, Sequences, FiniteSets, TLC

VARIABLES
    cfg,                            \* constructor arguments of the account
    transactions,                   \* Account._transactions
    debits_added_this_month,        \* history: debits appended since the last month change
    checks_written,                 \* CheckingAccount._checks_written
    withdrawal_count_this_month,    \* SavingsAccount._withdrawal_count_this_month
    last_withdrawal_month,          \* SavingsAccount._last_withdrawal_month
    total_interest_charged,         \* CreditAccount._total_interest_charged
    now,                            \* datetime.now(), counted in months
    result,                         \* outcome of the last call
    rows,                           \* history: the rows given to TransactionCleaner(rows)
    cleaner_transactions,           \* TransactionCleaner._transactions
    caller_rows,                    \* the caller's list that was given to TransactionCleaner(rows), as it is now
    caller_view,                    \* the caller's list last returned by .transactions, as it is now
    aliases,                        \* per stored dict: the caller's reference to that same object
    list_alias,                     \* the caller's reference to the stored list object
    rules,                          \* StatementMonitor._rules
    analysis,                       \* what the last run_full_analysis returned
    arguments,                      \* the arguments of the call Transaction(...)
    created,                        \* the Transaction object the call gave
    transaction_count               \* Transaction._transaction_count

\* the account, without the outcome of the last call
accountFields == <<cfg, transactions, debits_added_this_month, checks_written,
                   withdrawal_count_this_month, last_withdrawal_month,
                   total_interest_charged, now>>

acctVars == <<accountFields, result>>

\* what the caller holds, and what of the cleaner's storage it can reach
callerVars == <<caller_rows, caller_view, aliases, list_alias>>

\* the monitor around the cleaner
monitorVars == <<rules, analysis>>

\* a call of the Transaction constructor on its own
constructorVars == <<arguments, created, transaction_count>>

\* everything beside the account
cleanerVars == <<rows, cleaner_transactions, callerVars, monitorVars,
                 constructorVars>>

vars == <<acctVars, cleanerVars>>

----------------------------------------------------------------------------
(* Bounds *)

MaxTxns == 3        \* longest transaction list explored
MaxClock == 13      \* last month of the explored calendar (month 0 = January)
MaxRows == 2        \* longest batch of rows given to the cleaner

----------------------------------------------------------------------------
(* Values *)

\* self._last_withdrawal_month = None: no month (months are 1..12)
None == 0

SelfId == "ACC001"
OtherId == "ACC999"

\* 1,000,000 dollars in cents: the ceiling of validate_transaction_amount
MAX_AMOUNT_CENTS == 100000000

\* Amounts of the transactions handed to add_transaction, cents.
TxnAmounts == {20000, MAX_AMOUNT_CENTS}

\* Amounts asked of can_withdraw / write_check, cents.
AskAmounts == {0, 20000, MAX_AMOUNT_CENTS + 1}

CheckNumbers == {1001, 1002}

CheckingConfigs ==
    { [kind |-> "checking", overdraft_limit |-> 0, monthly_fee |-> 1000,
       minimum_balance |-> 50000],
      [kind |-> "checking", overdraft_limit |-> 100000000, monthly_fee |-> 0,
       minimum_balance |-> 50000] }

SavingsConfigs ==
    { [kind |-> "savings", interest_rate |-> 400, minimum_balance |-> 10000,
       monthly_withdrawal_limit |-> 2, low_balance_fee |-> 1500],
      [kind |-> "savings", interest_rate |-> 400, minimum_balance |-> 0,
       monthly_withdrawal_limit |-> 1, low_balance_fee |-> 1500],
      [kind |-> "savings", interest_rate |-> 0, minimum_balance |-> 10000,
       monthly_withdrawal_limit |-> 0, low_balance_fee |-> 0] }

CreditConfigs ==
    { [kind |-> "credit", credit_limit |-> 30000, apr |-> 1999],
      [kind |-> "credit", credit_limit |-> 300000, apr |-> 0],
      [kind |-> "credit", credit_limit |-> 30000, apr |-> 240000] }

Configs == CheckingConfigs \cup SavingsConfigs \cup CreditConfigs

----------------------------------------------------------------------------
(* Arithmetic *)

Abs(x) == IF x < 0 THEN -x ELSE x

Max(a, b) == IF a >= b THEN a ELSE b

RECURSIVE GCD(_, _)
GCD(a, b) == IF b = 0 THEN a ELSE GCD(b, a % b)

\* round(a * b / d) for a, b >= 0 and d > 0, ties to even.  The quotient is
\* taken after reducing b/d and splitting a, so that no intermediate product
\* leaves the 32-bit range the checker computes in.
RoundHalfEven(a, b, d) ==
    LET g  == GCD(b, d)
        bb == b \div g
        dd == d \div g
        q  == (a \div dd) * bb + ((a % dd) * bb) \div dd
        r  == ((a % dd) * bb) % dd
    IN  IF 2 * r < dd THEN q
        ELSE IF 2 * r > dd THEN q + 1
        ELSE IF q % 2 = 0 THEN q ELSE q + 1

----------------------------------------------------------------------------
(* Transaction *)

validate_transaction_amount(amount) ==
    IF amount <= 0 THEN FALSE
    ELSE IF amount > MAX_AMOUNT_CENTS THEN FALSE
    ELSE TRUE

\* The object a successful constructor call leaves behind.
Transaction(transaction_id, amount, category, account_id, transaction_type) ==
    [transaction_id |-> transaction_id, amount |-> amount,
     category |-> category, account_id |-> account_id,
     transaction_type |-> transaction_type]

\* Faulty variant: the sign of a debit is lost.  C1 must reject it.
signed_amount_unsigned(txn) == txn.amount

signed_amount(txn) ==
    IF txn.transaction_type = "credit" THEN txn.amount ELSE -txn.amount

\* Transactions a caller can construct and pass in.
CallerTransactions ==
    { Transaction("TXN", a, "General", id, t) :
        a \in TxnAmounts, id \in {SelfId, OtherId}, t \in {"debit", "credit"} }

----------------------------------------------------------------------------
(* Account *)

RECURSIVE SumSigned(_, _)
SumSigned(txns, i) ==
    IF i > Len(txns) THEN 0 ELSE signed_amount(txns[i]) + SumSigned(txns, i + 1)

\* Account.balance: total += txn.signed_amount over self._transactions
balance_of(txns) == SumSigned(txns, 1)

balance == balance_of(transactions)

current_month == (now % 12) + 1

Result(op, raised, value, allowed, reason) ==
    [op |-> op, raised |-> raised, value |-> value, allowed |-> allowed,
     reason |-> reason]

\* Faulty variant: the account-id check is missing.  C2 must reject it.
belongs_unchecked(txn) == TRUE

\* Account.add_transaction: the account-id check
belongs(txn) == txn.account_id = SelfId


\* no constructor call, and no object from one
NoArguments == [called |-> FALSE]
NoObject == [exists |-> FALSE]

Init ==
    /\ cfg \in Configs
    /\ transactions = << >>
    /\ debits_added_this_month = 0
    /\ checks_written = << >>
    /\ withdrawal_count_this_month = 0
    /\ last_withdrawal_month = None
    /\ total_interest_charged = 0
    /\ now = 0
    /\ result = Result("init", FALSE, 0, FALSE, "")
    /\ rows = << >>
    /\ cleaner_transactions = << >>
    /\ caller_rows = << >>
    /\ caller_view = << >>
    /\ aliases = << >>
    /\ list_alias = "none"
    /\ rules = << >>
    /\ analysis = [returned |-> FALSE, alerts |-> << >>]
    /\ arguments = NoArguments
    /\ created = NoObject
    /\ transaction_count = 0

\* self._transactions.append(transaction), with the history counter
AppendTxn(txn) ==
    /\ transactions' = Append(transactions, txn)
    /\ debits_added_this_month' =
          IF signed_amount(txn) < 0 THEN debits_added_this_month + 1
          ELSE debits_added_this_month

\* Account.add_transaction as inherited by CheckingAccount and CreditAccount
Account_add_transaction(txn) ==
    /\ cfg.kind \in {"checking", "credit"}
    /\ Len(transactions) < MaxTxns
    /\ IF ~belongs(txn)
       THEN /\ result' = Result("add_transaction", TRUE, 0, FALSE, "mismatch")
            /\ UNCHANGED <<transactions, debits_added_this_month>>
       ELSE /\ AppendTxn(txn)
            /\ result' = Result("add_transaction", FALSE, 0, FALSE, "")
    /\ UNCHANGED cleanerVars
    /\ UNCHANGED <<cfg, checks_written, withdrawal_count_this_month,
                   last_withdrawal_month, total_interest_charged, now>>

----------------------------------------------------------------------------
(* CheckingAccount *)

Checking_calculate_available_funds(bal, c) == bal + c.overdraft_limit

\* the condition under which apply_monthly_fees charges
Checking_fee_due(bal, c) == bal < c.minimum_balance

\* (allowed, reason) of CheckingAccount.can_withdraw
Checking_can_withdraw(amount, bal, c) ==
    LET available == Checking_calculate_available_funds(bal, c)
    IN  IF amount <= 0 THEN [allowed |-> FALSE, reason |-> "positive"]
        ELSE IF amount <= available THEN [allowed |-> TRUE, reason |-> ""]
        ELSE [allowed |-> FALSE, reason |-> "funds"]

CheckingAccount_apply_monthly_fees ==
    /\ cfg.kind = "checking"
    /\ Len(transactions) < MaxTxns
    /\ IF Checking_fee_due(balance, cfg)
       THEN IF ~validate_transaction_amount(cfg.monthly_fee)
            THEN \* the Transaction constructor raises ValueError
                 /\ result' = Result("apply_monthly_fees", TRUE, 0, FALSE,
                                     "invalid amount")
                 /\ UNCHANGED <<transactions, debits_added_this_month>>
            ELSE /\ AppendTxn(Transaction("FEE", cfg.monthly_fee, "Bank Fees",
                                          SelfId, "debit"))
                 /\ result' = Result("apply_monthly_fees", FALSE,
                                     cfg.monthly_fee, FALSE, "")
       ELSE /\ result' = Result("apply_monthly_fees", FALSE, 0, FALSE, "")
            /\ UNCHANGED <<transactions, debits_added_this_month>>
    /\ UNCHANGED cleanerVars
    /\ UNCHANGED <<cfg, checks_written, withdrawal_count_this_month,
                   last_withdrawal_month, total_interest_charged, now>>

CheckingAccount_can_withdraw(amount) ==
    /\ cfg.kind = "checking"
    /\ LET r == Checking_can_withdraw(amount, balance, cfg)
       IN  result' = Result("can_withdraw", FALSE, amount, r.allowed, r.reason)
    /\ UNCHANGED cleanerVars
    /\ UNCHANGED <<cfg, transactions, debits_added_this_month, checks_written,
                   withdrawal_count_this_month, last_withdrawal_month,
                   total_interest_charged, now>>

InSeq(x, s) == \E i \in 1..Len(s) : s[i] = x

CheckingAccount_write_check(check_number, amount) ==
    /\ cfg.kind = "checking"
    /\ Len(transactions) < MaxTxns
    /\ LET r == Checking_can_withdraw(amount, balance, cfg)
       IN  IF InSeq(check_number, checks_written)
           THEN /\ result' = Result("write_check", TRUE, 0, FALSE, "already written")
                /\ UNCHANGED <<transactions, debits_added_this_month, checks_written>>
           ELSE IF amount <= 0
           THEN /\ result' = Result("write_check", TRUE, 0, FALSE, "positive")
                /\ UNCHANGED <<transactions, debits_added_this_month, checks_written>>
           ELSE IF ~r.allowed
           THEN /\ result' = Result("write_check", TRUE, 0, FALSE, r.reason)
                /\ UNCHANGED <<transactions, debits_added_this_month, checks_written>>
           ELSE IF ~validate_transaction_amount(amount)
           THEN \* the Transaction constructor raises ValueError
                /\ result' = Result("write_check", TRUE, 0, FALSE, "invalid amount")
                /\ UNCHANGED <<transactions, debits_added_this_month, checks_written>>
           ELSE /\ AppendTxn(Transaction("CHK", amount, "Check Payment",
                                         SelfId, "debit"))
                /\ checks_written' = Append(checks_written, check_number)
                /\ result' = Result("write_check", FALSE, amount, FALSE, "")
    /\ UNCHANGED cleanerVars
    /\ UNCHANGED <<cfg, withdrawal_count_this_month, last_withdrawal_month,
                   total_interest_charged, now>>

----------------------------------------------------------------------------
(* SavingsAccount *)

\* Faulty variant: the minimum balance is not held back.  C3 must reject it.
Savings_available_without_minimum(bal, c) == Max(0, bal)

Savings_calculate_available_funds(bal, c) == Max(0, bal - c.minimum_balance)

\* Faulty variant: an account exactly at its minimum is charged the fee.  C8
\* must reject it.
Savings_fee_at_minimum(bal, c) ==
    IF bal > c.minimum_balance
    THEN -RoundHalfEven(bal, c.interest_rate, 120000)
    ELSE c.low_balance_fee

\* value returned by SavingsAccount.apply_monthly_fees
Savings_monthly_fee_or_interest(bal, c) ==
    IF bal >= c.minimum_balance
    THEN -RoundHalfEven(bal, c.interest_rate, 120000)
    ELSE c.low_balance_fee

\* _reset_withdrawal_count_if_new_month: the count it leaves
reset_withdrawal_count_if_new_month(count, last, month) ==
    IF last # month THEN 0 ELSE count

\* Faulty variant: off by one, a withdrawal passes at the limit.  C4 must
\* reject it.
Savings_limit_exceeded(count, c) == count > c.monthly_withdrawal_limit

\* the withdrawal-limit test of can_withdraw
Savings_limit_reached(count, c) == count >= c.monthly_withdrawal_limit

\* SavingsAccount.can_withdraw: (allowed, reason) and the count it leaves
Savings_can_withdraw(amount, bal, c, count, last, month) ==
    LET reset == reset_withdrawal_count_if_new_month(count, last, month)
        available == Savings_calculate_available_funds(bal, c)
    IN  IF amount <= 0
        THEN [allowed |-> FALSE, reason |-> "positive", count |-> count]
        ELSE IF Savings_limit_reached(reset, c)
        THEN [allowed |-> FALSE, reason |-> "limit", count |-> reset]
        ELSE IF amount > available
        THEN [allowed |-> FALSE, reason |-> "funds", count |-> reset]
        ELSE [allowed |-> TRUE, reason |-> "", count |-> reset]

SavingsAccount_apply_monthly_fees ==
    /\ cfg.kind = "savings"
    /\ result' = Result("apply_monthly_fees", FALSE,
                        Savings_monthly_fee_or_interest(balance, cfg), FALSE, "")
    /\ UNCHANGED cleanerVars
    /\ UNCHANGED <<cfg, transactions, debits_added_this_month, checks_written,
                   withdrawal_count_this_month, last_withdrawal_month,
                   total_interest_charged, now>>

SavingsAccount_can_withdraw(amount) ==
    /\ cfg.kind = "savings"
    /\ LET r == Savings_can_withdraw(amount, balance, cfg,
                                     withdrawal_count_this_month,
                                     last_withdrawal_month, current_month)
       IN  /\ withdrawal_count_this_month' = r.count
           /\ result' = Result("can_withdraw", FALSE, amount, r.allowed, r.reason)
    /\ UNCHANGED cleanerVars
    /\ UNCHANGED <<cfg, transactions, debits_added_this_month, checks_written,
                   last_withdrawal_month, total_interest_charged, now>>

SavingsAccount_add_transaction(txn) ==
    /\ cfg.kind = "savings"
    /\ Len(transactions) < MaxTxns
    /\ IF signed_amount(txn) < 0
       THEN LET r == Savings_can_withdraw(Abs(signed_amount(txn)), balance, cfg,
                                          withdrawal_count_this_month,
                                          last_withdrawal_month, current_month)
            IN  IF ~r.allowed
                THEN /\ withdrawal_count_this_month' = r.count
                     /\ result' = Result("add_transaction", TRUE, 0, FALSE, r.reason)
                     /\ UNCHANGED <<transactions, debits_added_this_month,
                                    last_withdrawal_month>>
                ELSE \* the count is raised before the base class checks the id
                     /\ withdrawal_count_this_month' =
                           reset_withdrawal_count_if_new_month(
                               r.count, last_withdrawal_month, current_month) + 1
                     /\ last_withdrawal_month' = current_month
                     /\ IF ~belongs(txn)
                        THEN /\ result' = Result("add_transaction", TRUE, 0,
                                                 FALSE, "mismatch")
                             /\ UNCHANGED <<transactions, debits_added_this_month>>
                        ELSE /\ AppendTxn(txn)
                             /\ result' = Result("add_transaction", FALSE, 0,
                                                 FALSE, "")
       ELSE /\ IF ~belongs(txn)
               THEN /\ result' = Result("add_transaction", TRUE, 0, FALSE, "mismatch")
                    /\ UNCHANGED <<transactions, debits_added_this_month>>
               ELSE /\ AppendTxn(txn)
                    /\ result' = Result("add_transaction", FALSE, 0, FALSE, "")
            /\ UNCHANGED <<withdrawal_count_this_month, last_withdrawal_month>>
    /\ UNCHANGED cleanerVars
    /\ UNCHANGED <<cfg, checks_written, total_interest_charged, now>>

----------------------------------------------------------------------------
(* CreditAccount *)

\* Faulty variant: the floor at zero is missing.  C7 must reject it.
Credit_available_unfloored(bal, c) == c.credit_limit + bal

Credit_calculate_available_funds(bal, c) ==
    IF bal < 0 THEN Max(0, c.credit_limit - Abs(bal))
    ELSE c.credit_limit + bal

\* interest = round(abs(balance) * apr / 100 / 12, 2), in cents
Credit_interest(bal, c) == RoundHalfEven(Abs(bal), c.apr, 120000)

\* the condition under which apply_monthly_fees returns 0.0 at once
Credit_nothing_owed(bal) == bal >= 0

Credit_can_withdraw(amount, bal, c) ==
    LET available == Credit_calculate_available_funds(bal, c)
    IN  IF amount <= 0 THEN [allowed |-> FALSE, reason |-> "positive"]
        ELSE IF amount <= available THEN [allowed |-> TRUE, reason |-> ""]
        ELSE [allowed |-> FALSE, reason |-> "limit"]

\* Faulty variant: the charge is posted but not accumulated.  C6 must reject
\* it.
Credit_accumulate_nothing(total, interest) == total

\* total_interest_charged after an interest posting
Credit_accumulate(total, interest) == total + interest

CreditAccount_apply_monthly_fees ==
    /\ cfg.kind = "credit"
    /\ Len(transactions) < MaxTxns
    /\ LET interest == Credit_interest(balance, cfg)
       IN  IF Credit_nothing_owed(balance)
           THEN /\ result' = Result("apply_monthly_fees", FALSE, 0, FALSE, "")
                /\ UNCHANGED <<transactions, debits_added_this_month,
                               total_interest_charged>>
           ELSE IF interest > 0
           THEN IF ~validate_transaction_amount(interest)
                THEN \* the Transaction constructor raises ValueError
                     /\ result' = Result("apply_monthly_fees", TRUE, 0, FALSE,
                                         "invalid amount")
                     /\ UNCHANGED <<transactions, debits_added_this_month,
                                    total_interest_charged>>
                ELSE /\ AppendTxn(Transaction("INT", interest, "Interest",
                                              SelfId, "debit"))
                     /\ total_interest_charged' =
                           Credit_accumulate(total_interest_charged, interest)
                     /\ result' = Result("apply_monthly_fees", FALSE, interest,
                                         FALSE, "")
           ELSE /\ result' = Result("apply_monthly_fees", FALSE, interest, FALSE, "")
                /\ UNCHANGED <<transactions, debits_added_this_month,
                               total_interest_charged>>
    /\ UNCHANGED cleanerVars
    /\ UNCHANGED <<cfg, checks_written, withdrawal_count_this_month,
                   last_withdrawal_month, now>>

CreditAccount_can_withdraw(amount) ==
    /\ cfg.kind = "credit"
    /\ LET r == Credit_can_withdraw(amount, balance, cfg)
       IN  result' = Result("can_withdraw", FALSE, amount, r.allowed, r.reason)
    /\ UNCHANGED cleanerVars
    /\ UNCHANGED <<cfg, transactions, debits_added_this_month, checks_written,
                   withdrawal_count_this_month, last_withdrawal_month,
                   total_interest_charged, now>>

----------------------------------------------------------------------------
(* The clock *)

\* The calendar moves on by a month, or by a whole year.  Only SavingsAccount
\* reads the clock, so it is left standing for the other variants.
Tick ==
    /\ cfg.kind = "savings"
    /\ \E d \in {1, 12} :
          /\ now + d <= MaxClock
          /\ now' = now + d
    /\ debits_added_this_month' = 0
    /\ result' = Result("tick", FALSE, 0, FALSE, "")
    /\ UNCHANGED cleanerVars
    /\ UNCHANGED <<cfg, transactions, checks_written,
                   withdrawal_count_this_month, last_withdrawal_month,
                   total_interest_charged>>

Next ==
    \/ \E txn \in CallerTransactions : Account_add_transaction(txn)
    \/ CheckingAccount_apply_monthly_fees
    \/ \E a \in AskAmounts : CheckingAccount_can_withdraw(a)
    \/ \E n \in CheckNumbers, a \in AskAmounts : CheckingAccount_write_check(n, a)
    \/ SavingsAccount_apply_monthly_fees
    \/ \E a \in AskAmounts : SavingsAccount_can_withdraw(a)
    \/ \E txn \in CallerTransactions : SavingsAccount_add_transaction(txn)
    \/ CreditAccount_apply_monthly_fees
    \/ \E a \in AskAmounts : CreditAccount_can_withdraw(a)
    \/ Tick

Spec == Init /\ [][Next]_vars

----------------------------------------------------------------------------
(* Part II.  Strings.                                                      *)
(* A Python str is a sequence of one-character strings; a field value is   *)
(* tagged: Str(chars), Num(cents) for a float with two decimals, NoneValue.*)

Str(chars) == <<"str", chars>>
Num(cents) == <<"num", cents>>
NoneValue == <<"none">>

UpperChars == <<"A","B","C","D","E","F","G","H","I","J","K","L","M",
                "N","O","P","Q","R","S","T","U","V","W","X","Y","Z">>
LowerChars == <<"a","b","c","d","e","f","g","h","i","j","k","l","m",
                "n","o","p","q","r","s","t","u","v","w","x","y","z">>
DigitChars == <<"0","1","2","3","4","5","6","7","8","9">>

\* the letter U+0131, a lower-case i without its dot, named here by its
\* description: str.upper and str.title give "I" for it, and str.lower
\* leaves it as it is
DotlessI == "dotless i"

isdigit(ch) == \E i \in 1..10 : DigitChars[i] = ch
isupper(ch) == \E i \in 1..26 : UpperChars[i] = ch
islower(ch) == ch = DotlessI \/ \E i \in 1..26 : LowerChars[i] = ch
isspace(ch) == ch = " "

digit_value(ch) == (CHOOSE i \in 1..10 : DigitChars[i] = ch) - 1

lower_char(ch) ==
    IF isupper(ch) THEN LowerChars[CHOOSE i \in 1..26 : UpperChars[i] = ch] ELSE ch
upper_char(ch) ==
    IF ch = DotlessI THEN "I"
    ELSE IF islower(ch) THEN UpperChars[CHOOSE i \in 1..26 : LowerChars[i] = ch]
    ELSE ch

RECURSIVE lower(_)
lower(s) == IF s = << >> THEN << >> ELSE <<lower_char(Head(s))>> \o lower(Tail(s))

RECURSIVE lstrip(_)
lstrip(s) ==
    IF s # << >> /\ isspace(Head(s)) THEN lstrip(Tail(s)) ELSE s

RECURSIVE rstrip(_)
rstrip(s) ==
    IF s # << >> /\ isspace(s[Len(s)]) THEN rstrip(SubSeq(s, 1, Len(s) - 1)) ELSE s

strip(s) == rstrip(lstrip(s))

\* s.split(sep) for a one-character sep: the pieces between the separators
RECURSIVE split_on(_, _, _)
split_on(s, sep, piece) ==
    IF s = << >> THEN <<piece>>
    ELSE IF Head(s) = sep THEN <<piece>> \o split_on(Tail(s), sep, << >>)
    ELSE split_on(Tail(s), sep, Append(piece, Head(s)))

RECURSIVE drop_empty(_)
drop_empty(pieces) ==
    IF pieces = << >> THEN << >>
    ELSE IF Head(pieces) = << >> THEN drop_empty(Tail(pieces))
    ELSE <<Head(pieces)>> \o drop_empty(Tail(pieces))

\* s.split(): the runs of non-blank characters
split(s) == drop_empty(split_on(s, " ", << >>))

\* " ".join(tokens)
RECURSIVE join(_)
join(tokens) ==
    IF tokens = << >> THEN << >>
    ELSE IF Len(tokens) = 1 THEN Head(tokens)
    ELSE Head(tokens) \o <<" ">> \o join(Tail(tokens))

\* sub in s
contains(s, sub) ==
    \E i \in 0..(Len(s) - Len(sub)) : SubSeq(s, i + 1, i + Len(sub)) = sub

\* s.title(): a letter that follows a letter is lowered, any other letter
\* is raised
RECURSIVE title_from(_, _)
title_from(s, previous_is_cased) ==
    IF s = << >> THEN << >>
    ELSE LET ch == Head(s)
             cased == isupper(ch) \/ islower(ch)
         IN  <<IF ~cased THEN ch
               ELSE IF previous_is_cased THEN lower_char(ch)
               ELSE upper_char(ch)>>
             \o title_from(Tail(s), cased)

title(s) == title_from(s, FALSE)

RECURSIVE digits_of(_)
digits_of(n) ==
    IF n < 10 THEN <<DigitChars[n + 1]>>
    ELSE digits_of(n \div 10) \o <<DigitChars[(n % 10) + 1]>>

\* repr of a float that has at most two decimals, given in cents
float_repr(cents) ==
    LET a == Abs(cents)
        frac == a % 100
    IN  (IF cents < 0 THEN <<"-">> ELSE << >>)
        \o digits_of(a \div 100) \o <<".">>
        \o (IF frac % 10 = 0 THEN digits_of(frac \div 10)
            ELSE <<DigitChars[(frac \div 10) + 1], DigitChars[(frac % 10) + 1]>>)

\* str(value)
str(value) ==
    IF value = NoneValue THEN <<"N","o","n","e">>
    ELSE IF value[1] = "str" THEN value[2]
    ELSE float_repr(value[2])

\* the truth value Python gives a field value ("not value", "value or ...")
truthy(value) ==
    IF value = NoneValue THEN FALSE
    ELSE IF value[1] \in {"str", "list"} THEN value[2] # << >>
    ELSE value[2] # 0

----------------------------------------------------------------------------
(* Rows: a dict is a function from its keys to values *)

has(row, key) == key \in DOMAIN row

\* row.get(key, default)
get(row, key, default) == IF has(row, key) THEN row[key] ELSE default

\* a copy of row with row[key] = value
put(row, key, value) ==
    [k \in (DOMAIN row) \cup {key} |-> IF k = key THEN value ELSE row[k]]

\* a copy of row after row.pop(key, None)
pop(row, key) == [k \in (DOMAIN row) \ {key} |-> row[k]]

\* what a transform hands back: the new row, or the error it raised
Returned(row) == [raised |-> FALSE, error |-> "", row |-> row]
Raised(error, row) == [raised |-> TRUE, error |-> error, row |-> row]

----------------------------------------------------------------------------
(* normalize_date_format *)

all_digits(s) == s # << >> /\ \A i \in 1..Len(s) : isdigit(s[i])

RECURSIVE number_of(_)
number_of(s) ==
    IF s = << >> THEN 0
    ELSE 10 * number_of(SubSeq(s, 1, Len(s) - 1)) + digit_value(s[Len(s)])

\* the number a run of digits writes, or -1 for any other text
numeral(text) == IF all_digits(text) THEN number_of(text) ELSE -1

is_leap(year) == (year % 4 = 0) /\ ((year % 100 # 0) \/ (year % 400 = 0))

days_in_month(year, month) ==
    IF month = 2 THEN (IF is_leap(year) THEN 29 ELSE 28)
    ELSE IF month \in {4, 6, 9, 11} THEN 30 ELSE 31

\* the text strptime accepts for one directive, as a number, or -1, where n
\* is numeral(text):
\*   %Y is four digits; %m is 1..12 and %d is 1..31 in one or two digits;
\*   %d also takes a blank followed by one digit 1..9
field_accepted(directive, text, n) ==
    IF directive = "Y" THEN (IF Len(text) = 4 THEN n ELSE -1)
    ELSE IF directive = "d" /\ Len(text) = 2 /\ text[1] = " " /\ isdigit(text[2])
                            /\ text[2] # "0"
    THEN digit_value(text[2])
    ELSE IF Len(text) \in {1, 2} /\ n >= 1
                                 /\ n <= (IF directive = "m" THEN 12 ELSE 31)
    THEN n
    ELSE -1

field_value(directive, text) == field_accepted(directive, text, numeral(text))

\* the formats tried, in order: the separator and the order of the fields
fmts == << [sep |-> "-", fields |-> <<"Y", "m", "d">>],
           [sep |-> "/", fields |-> <<"Y", "m", "d">>],
           [sep |-> "/", fields |-> <<"m", "d", "Y">>],
           [sep |-> "-", fields |-> <<"m", "d", "Y">>] >>

\* the three fields of a text cut at the separators, or -1 for each
fields_of(parts, fields) ==
    [directive \in {"Y", "m", "d"} |->
        IF Len(parts) # 3 THEN -1
        ELSE field_value(directive,
                         parts[CHOOSE i \in 1..3 : fields[i] = directive])]

\* the date the fields make, or ok = FALSE for ValueError
date_of(f) ==
    IF f["Y"] < 1 \/ f["m"] < 1 \/ f["d"] < 1 THEN [ok |-> FALSE]
    ELSE IF f["d"] > days_in_month(f["Y"], f["m"]) THEN [ok |-> FALSE]
    ELSE [ok |-> TRUE, year |-> f["Y"], month |-> f["m"], day |-> f["d"]]

\* datetime.strptime(s, fmt)
strptime(s, fmt) == date_of(fields_of(split_on(s, fmt.sep, << >>), fmt.fields))

zero_padded(n, width) ==
    [i \in 1..(width - Len(digits_of(n))) |-> "0"] \o digits_of(n)

\* parsed.strftime("%Y-%m-%d"): the C library pads the month and the day;
\* glibc writes a year below 1000 without leading zeros
strftime(parsed) ==
    digits_of(parsed.year) \o <<"-">> \o zero_padded(parsed.month, 2)
        \o <<"-">> \o zero_padded(parsed.day, 2)

\* the first attempt that parsed, or ok = FALSE when none did
first_parsed(attempts) ==
    IF \E i \in 1..Len(attempts) : attempts[i].ok
    THEN attempts[CHOOSE i \in 1..Len(attempts) :
                     /\ attempts[i].ok
                     /\ \A j \in 1..(i - 1) : ~attempts[j].ok]
    ELSE [ok |-> FALSE]

\* the loop over fmts
parse_date(s) == first_parsed([i \in 1..Len(fmts) |-> strptime(s, fmts[i])])

\* the end of normalize_date_format, once the formats have been tried
date_written(row, parsed) ==
    IF ~parsed.ok THEN Raised("ValueError", row)
    ELSE Returned(pop(put(row, "date", Str(strftime(parsed))), "Date"))

normalize_date_format(row) ==
    IF ~has(row, "date") /\ ~has(row, "Date") THEN Raised("KeyError", row)
    ELSE IF get(row, "date", get(row, "Date", NoneValue)) = NoneValue
    THEN Raised("ValueError", row)
    ELSE IF strip(str(get(row, "date", get(row, "Date", NoneValue)))) = << >>
    THEN Raised("ValueError", row)
    ELSE date_written(row,
            parse_date(strip(str(get(row, "date", get(row, "Date", NoneValue))))))

----------------------------------------------------------------------------
(* clean_transaction_description *)

digit_count(token) == Cardinality({i \in 1..Len(token) : isdigit(token[i])})

\* the last token is dropped when it looks like a code
code_like(token) ==
    \/ digit_count(token) >= 3
    \/ (token # << >> /\ token[1] = "#")
    \/ contains(token, <<"-">>)

\* tokens.pop() when the last token is code-like
without_code(tokens) ==
    IF code_like(tokens[Len(tokens)]) THEN SubSeq(tokens, 1, Len(tokens) - 1)
    ELSE tokens

\* the end of clean_transaction_description, given cleaned
description_written(row, cleaned) ==
    IF cleaned = << >> THEN Raised("ValueError", row)
    ELSE Returned(pop(pop(put(row, "description", Str(cleaned)),
                          "Description"), "source"))

\* clean_transaction_description from s.split(" ") on
description_from(row, tokens) ==
    IF tokens = << >> THEN Raised("ValueError", row)
    ELSE description_written(row, strip(join(without_code(tokens))))

clean_transaction_description(row) ==
    IF ~has(row, "description") /\ ~has(row, "Description") /\ ~has(row, "source")
    THEN Raised("KeyError", row)
    ELSE description_from(row,
            split(strip(str(get(row, "description",
                                get(row, "Description",
                                    get(row, "source", NoneValue)))))))

----------------------------------------------------------------------------
(* standardize_category_names *)

\* the exact names, grouped by the category they map to
mapping == <<
    \* subscription, subscriptions, subs, subscr -> Subscription
      <<{<<"s","u","b","s","c","r","i","p","t","i","o","n">>,
         <<"s","u","b","s","c","r","i","p","t","i","o","n","s">>,
         <<"s","u","b","s">>,
         <<"s","u","b","s","c","r">>},
        <<"S","u","b","s","c","r","i","p","t","i","o","n">>>>,
    \* bill, bills -> Bills
      <<{<<"b","i","l","l">>,
         <<"b","i","l","l","s">>},
        <<"B","i","l","l","s">>>>,
    \* food, dining, restaurant, coffee, cafe, cafes -> Food
      <<{<<"f","o","o","d">>,
         <<"d","i","n","i","n","g">>,
         <<"r","e","s","t","a","u","r","a","n","t">>,
         <<"c","o","f","f","e","e">>,
         <<"c","a","f","e">>,
         <<"c","a","f","e","s">>},
        <<"F","o","o","d">>>>,
    \* groceries, grocery -> Groceries
      <<{<<"g","r","o","c","e","r","i","e","s">>,
         <<"g","r","o","c","e","r","y">>},
        <<"G","r","o","c","e","r","i","e","s">>>>,
    \* entertainment -> Entertainment
      <<{<<"e","n","t","e","r","t","a","i","n","m","e","n","t">>},
        <<"E","n","t","e","r","t","a","i","n","m","e","n","t">>>>,
    \* transport, transportation, uber, lyft, gas, fuel -> Transportation
      <<{<<"t","r","a","n","s","p","o","r","t">>,
         <<"t","r","a","n","s","p","o","r","t","a","t","i","o","n">>,
         <<"u","b","e","r">>,
         <<"l","y","f","t">>,
         <<"g","a","s">>,
         <<"f","u","e","l">>},
        <<"T","r","a","n","s","p","o","r","t","a","t","i","o","n">>>>,
    \* utilities, internet, electric, water -> Utilities
      <<{<<"u","t","i","l","i","t","i","e","s">>,
         <<"i","n","t","e","r","n","e","t">>,
         <<"e","l","e","c","t","r","i","c">>,
         <<"w","a","t","e","r">>},
        <<"U","t","i","l","i","t","i","e","s">>>>,
    \* health, healthcare -> Healthcare
      <<{<<"h","e","a","l","t","h">>,
         <<"h","e","a","l","t","h","c","a","r","e">>},
        <<"H","e","a","l","t","h","c","a","r","e">>>>,
    \* shopping, retail -> Shopping
      <<{<<"s","h","o","p","p","i","n","g">>,
         <<"r","e","t","a","i","l">>},
        <<"S","h","o","p","p","i","n","g">>>>,
    \* debt, loan -> Debt
      <<{<<"d","e","b","t">>,
         <<"l","o","a","n">>},
        <<"D","e","b","t">>>>,
    \* income, salary -> Income
      <<{<<"i","n","c","o","m","e">>,
         <<"s","a","l","a","r","y">>},
        <<"I","n","c","o","m","e">>>>,
    \* other -> Other
      <<{<<"o","t","h","e","r">>},
        <<"O","t","h","e","r">>>> >>

\* the fragments looked for, in order, when no exact name matches
fragments == <<
    \* subscr -> Subscription
      <<{<<"s","u","b","s","c","r">>},
        <<"S","u","b","s","c","r","i","p","t","i","o","n">>>>,
    \* groc -> Groceries
      <<{<<"g","r","o","c">>},
        <<"G","r","o","c","e","r","i","e","s">>>>,
    \* restaur, dining, cafe, coffee, food -> Food
      <<{<<"r","e","s","t","a","u","r">>, <<"d","i","n","i","n","g">>, <<"c","a","f","e">>, <<"c","o","f","f","e","e">>, <<"f","o","o","d">>},
        <<"F","o","o","d">>>>,
    \* transport, uber, lyft, gas, fuel -> Transportation
      <<{<<"t","r","a","n","s","p","o","r","t">>, <<"u","b","e","r">>, <<"l","y","f","t">>, <<"g","a","s">>, <<"f","u","e","l">>},
        <<"T","r","a","n","s","p","o","r","t","a","t","i","o","n">>>>,
    \* utilit, internet, electric, water -> Utilities
      <<{<<"u","t","i","l","i","t">>, <<"i","n","t","e","r","n","e","t">>, <<"e","l","e","c","t","r","i","c">>, <<"w","a","t","e","r">>},
        <<"U","t","i","l","i","t","i","e","s">>>>,
    \* retail, shop -> Shopping
      <<{<<"r","e","t","a","i","l">>, <<"s","h","o","p">>},
        <<"S","h","o","p","p","i","n","g">>>>,
    \* health, care -> Healthcare
      <<{<<"h","e","a","l","t","h">>, <<"c","a","r","e">>},
        <<"H","e","a","l","t","h","c","a","r","e">>>>,
    \* loan, debt -> Debt
      <<{<<"l","o","a","n">>, <<"d","e","b","t">>},
        <<"D","e","b","t">>>>,
    \* salary, pay, income -> Income
      <<{<<"s","a","l","a","r","y">>, <<"p","a","y">>, <<"i","n","c","o","m","e">>},
        <<"I","n","c","o","m","e">>>> >>


\* s in mapping, entry by entry
exact_hits(s) == [i \in 1..Len(mapping) |-> s \in mapping[i][1]]

\* k in s for some fragment k, entry by entry
fragment_hits(s) ==
    [i \in 1..Len(fragments) |-> \E k \in fragments[i][1] : contains(s, k)]

\* the category of the first entry of the table that is hit, or the text
\* given when none is
first_entry(table, hits, otherwise) ==
    IF \E i \in 1..Len(table) : hits[i]
    THEN table[CHOOSE i \in 1..Len(table) :
                  hits[i] /\ \A j \in 1..(i - 1) : ~hits[j]][2]
    ELSE otherwise

\* std, for the stripped text of the category and its lower-case form s
std_of(stripped, s) ==
    first_entry(mapping, exact_hits(s),
                first_entry(fragments, fragment_hits(s), title(stripped)))

\* standardize_category_names once the raw text is stripped
category_from(row, stripped) ==
    IF stripped = << >> THEN Raised("ValueError", row)
    ELSE Returned(pop(put(row, "category", Str(std_of(stripped, lower(stripped)))),
                      "Category"))

standardize_category_names(row) ==
    IF ~has(row, "category") /\ ~has(row, "Category") THEN Raised("KeyError", row)
    ELSE category_from(row,
            strip(str(get(row, "category", get(row, "Category", NoneValue)))))

----------------------------------------------------------------------------
(* remove_duplicate_transactions *)

\* round(f * 100) for the decimal written whole.frac.  It is exact for the
\* amounts explored, which have at most two decimals; a longer fraction is
\* rounded on its third decimal, a tie going to the even neighbour.
rounded_cents(whole, frac) ==
    number_of(whole) * 100
    + (IF Len(frac) >= 1 THEN 10 * digit_value(frac[1]) ELSE 0)
    + (IF Len(frac) >= 2 THEN digit_value(frac[2]) ELSE 0)
    + (IF /\ Len(frac) >= 3
          /\ \/ digit_value(frac[3]) > 5
             \/ /\ digit_value(frac[3]) = 5
                /\ \/ \E i \in 4..Len(frac) : frac[i] # "0"
                   \/ digit_value(frac[2]) % 2 = 1
       THEN 1 ELSE 0)

\* the unsigned text cut at the points: digits, at most one point, at least
\* one digit; anything else is a ValueError of float()
float_of(negative, parts) ==
    IF /\ Len(parts) \in {1, 2}
       /\ \A i \in 1..Len(parts) : \A j \in 1..Len(parts[i]) : isdigit(parts[i][j])
       /\ \E i \in 1..Len(parts) : parts[i] # << >>
    THEN [ok |-> TRUE,
          cents |-> (IF negative THEN -1 ELSE 1)
                    * rounded_cents(parts[1],
                                    IF Len(parts) = 2 THEN parts[2] ELSE << >>)]
    ELSE [ok |-> FALSE]

\* float(text) for plain decimal text, as int(round(float(text) * 100))
float_cents(t) ==
    float_of(t # << >> /\ t[1] = "-",
             split_on(IF t # << >> /\ t[1] \in {"-", "+"} THEN Tail(t) ELSE t,
                      ".", << >>))

\* amt_float is 0.0 when float() raises
cents_or_zero(parsed) == IF parsed.ok THEN parsed.cents ELSE 0

\* int(round(float(amt_raw) * 100))
amount_cents(amt_raw) ==
    IF amt_raw = NoneValue THEN 0
    ELSE IF amt_raw[1] = "num" THEN amt_raw[2]
    ELSE cents_or_zero(float_cents(strip(amt_raw[2])))

\* try: the normalized field; except: the raw text
key_part(done, field, raw) ==
    IF done.raised THEN strip(str(raw)) ELSE done.row[field][2]

date_iso(row) ==
    key_part(normalize_date_format(row), "date",
             get(row, "date", get(row, "Date", Str(<< >>))))

desc_clean(row) ==
    key_part(clean_transaction_description(row), "description",
             get(row, "description",
                 get(row, "Description", get(row, "source", Str(<< >>)))))

cat_std(row) ==
    key_part(standardize_category_names(row), "category",
             get(row, "category", get(row, "Category", Str(<< >>))))

\* value or ""
or_empty(value) == IF truthy(value) THEN value ELSE Str(<< >>)

\* Faulty variant: the account is compared as written.  C13 must reject it.
account_as_written(row) ==
    strip(str(or_empty(get(row, "account", get(row, "Account", Str(<< >>))))))

account_lower(row) ==
    lower(strip(str(or_empty(get(row, "account",
                                 get(row, "Account", Str(<< >>)))))))

duplicate_key(row) ==
    << date_iso(row),
       amount_cents(get(row, "amount", get(row, "Amount", Num(0)))),
       lower(desc_clean(row)),
       cat_std(row),
       account_lower(row) >>

RECURSIVE keys_of(_)
keys_of(rs) ==
    IF rs = << >> THEN << >> ELSE <<duplicate_key(Head(rs))>> \o keys_of(Tail(rs))

\* the loop: a row is kept when its key has not been seen
RECURSIVE unique_from(_, _, _)
unique_from(rs, keys, seen) ==
    IF rs = << >> THEN << >>
    ELSE IF Head(keys) \in seen THEN unique_from(Tail(rs), Tail(keys), seen)
    ELSE <<Head(rs)>>
         \o unique_from(Tail(rs), Tail(keys), seen \cup {Head(keys)})

\* Faulty variant: the last record of each key is kept instead of the first.
\* C12 must reject it.
remove_duplicates_keeping_last(rs) ==
    LET reversed(q) == [i \in 1..Len(q) |-> q[Len(q) + 1 - i]]
    IN  reversed(unique_from(reversed(rs), reversed(keys_of(rs)), {}))

remove_duplicate_transactions(rs) == unique_from(rs, keys_of(rs), {})

----------------------------------------------------------------------------
(* TransactionCleaner *)

\* Rows handed to the constructor
SampleRows == <<
    \* {"Date": "9/1/2025", "Amount": "9.99", "Description": "Spotify #123", "category": "subscr", "account": "visa"}
    [ Date |-> Str(<<"9","/","1","/","2","0","2","5">>),
      Amount |-> Str(<<"9",".","9","9">>),
      Description |-> Str(<<"S","p","o","t","i","f","y"," ","#","1","2","3">>),
      category |-> Str(<<"s","u","b","s","c","r">>),
      account |-> Str(<<"v","i","s","a">>) ],
    \* {"date": "2025-09-01", "amount": 9.99, "description": "Spotify", "category": "Subscription", "account": "Visa"}
    [ date |-> Str(<<"2","0","2","5","-","0","9","-","0","1">>),
      amount |-> Num(999),
      description |-> Str(<<"S","p","o","t","i","f","y">>),
      category |-> Str(<<"S","u","b","s","c","r","i","p","t","i","o","n">>),
      account |-> Str(<<"V","i","s","a">>) ],
    \* {"date": "2025-09-03", "amount": "25.00", "description": "Amazon", "category": "Shopping", "account": "Checking"}
    [ date |-> Str(<<"2","0","2","5","-","0","9","-","0","3">>),
      amount |-> Str(<<"2","5",".","0","0">>),
      description |-> Str(<<"A","m","a","z","o","n">>),
      category |-> Str(<<"S","h","o","p","p","i","n","g">>),
      account |-> Str(<<"C","h","e","c","k","i","n","g">>) ],
    \* {"date": "2025-09-03", "amount": 25.0, "description": "Amazon", "category": "Shopping", "account": "checking"}
    [ date |-> Str(<<"2","0","2","5","-","0","9","-","0","3">>),
      amount |-> Num(2500),
      description |-> Str(<<"A","m","a","z","o","n">>),
      category |-> Str(<<"S","h","o","p","p","i","n","g">>),
      account |-> Str(<<"c","h","e","c","k","i","n","g">>) ],
    \* {"date": "Sept 1", "amount": "9.99", "Description": "Spotify #123", "category": "subscr"}
    [ date |-> Str(<<"S","e","p","t"," ","1">>),
      amount |-> Str(<<"9",".","9","9">>),
      Description |-> Str(<<"S","p","o","t","i","f","y"," ","#","1","2","3">>),
      category |-> Str(<<"s","u","b","s","c","r">>) ],
    \* {"Date": "09-01-2025", "Amount": "600.00", "Category": "Dining"}
    [ Date |-> Str(<<"0","9","-","0","1","-","2","0","2","5">>),
      Amount |-> Str(<<"6","0","0",".","0","0">>),
      Category |-> Str(<<"D","i","n","i","n","g">>) ],
    \* {"date": "2025/09/02", "amount": 50.0, "source": "Grocery  Store ORD-9981", "category": ""}
    [ date |-> Str(<<"2","0","2","5","/","0","9","/","0","2">>),
      amount |-> Num(5000),
      source |-> Str(<<"G","r","o","c","e","r","y"," "," ","S","t","o","r","e"," ","O","R","D","-","9","9","8","1">>),
      category |-> Str(<< >>) ],
    \* {"Date": "9/2/2025", "amount": "12", "description": "#123", "Category": "my groceries"}
    [ Date |-> Str(<<"9","/","2","/","2","0","2","5">>),
      amount |-> Str(<<"1","2">>),
      description |-> Str(<<"#","1","2","3">>),
      Category |-> Str(<<"m","y"," ","g","r","o","c","e","r","i","e","s">>) ] >>

\* every batch of at most n sample rows
Batches(n) ==
    UNION { [1..k -> {SampleRows[i] : i \in 1..Len(SampleRows)}] : k \in 0..n }

\* no account is built while the cleaner is exercised
NoAccount == [kind |-> "none"]

\* TransactionCleaner.__init__: a copy of every row given
\* An object the caller has no reference to
Private == <<"none">>

\* Faulty variant: the constructor stores the caller's dict itself.  C11
\* must reject it.
stored_as_given(i) == <<"given", i>>

\* self._transactions.append(dict(r)): the dict stored for rows[i] is a copy,
\* which the caller has no reference to
stored_as_copy(i) == Private

\* TransactionCleaner(rows), with no account around
Constructed ==
    /\ cleaner_transactions = rows
    /\ analysis = [returned |-> FALSE, alerts |-> << >>]
    /\ created = NoObject
    /\ transaction_count = 0
    /\ caller_rows = rows
    /\ caller_view = << >>
    /\ aliases = [i \in 1..Len(rows) |-> stored_as_copy(i)]
    /\ list_alias = "none"
    /\ cfg = NoAccount
    /\ transactions = << >>
    /\ debits_added_this_month = 0
    /\ checks_written = << >>
    /\ withdrawal_count_this_month = 0
    /\ last_withdrawal_month = None
    /\ total_interest_charged = 0
    /\ now = 0
    /\ result = Result("init", FALSE, 0, FALSE, "")

InitCleaner ==
    /\ rows \in Batches(MaxRows)
    /\ arguments = NoArguments
    /\ rules = << >>
    /\ Constructed

\* the per-record transform each batch method applies
transform(method, row) ==
    CASE method = "normalize_dates" -> normalize_date_format(row)
      [] method = "clean_descriptions" -> clean_transaction_description(row)
      [] method = "standardize_categories" -> standardize_category_names(row)

\* what the transform does with each row, in order
RECURSIVE transformed(_, _)
transformed(method, rs) ==
    IF rs = << >> THEN << >>
    ELSE <<transform(method, Head(rs))>> \o transformed(method, Tail(rs))

\* new_rows.append(nr)
appended(nr, rest) ==
    [raised |-> rest.raised, error |-> rest.error,
     new_rows |-> <<nr>> \o rest.new_rows]

\* the loop of a batch method: new_rows grows by one transformed row per
\* iteration and stops short at the first row whose transform raises
RECURSIVE loop(_)
loop(outcomes) ==
    IF outcomes = << >> THEN [raised |-> FALSE, error |-> "", new_rows |-> << >>]
    ELSE IF Head(outcomes).raised
    THEN [raised |-> TRUE, error |-> Head(outcomes).error, new_rows |-> << >>]
    ELSE appended(Head(outcomes).row, loop(Tail(outcomes)))

\* Faulty variant: each row is replaced as soon as it is transformed.  C9
\* must reject it.
stored_in_place(old, looped) ==
    looped.new_rows \o SubSeq(old, Len(looped.new_rows) + 1, Len(old))

\* self._transactions after the loop: it is assigned new_rows only once the
\* loop has run to its end
stored_after(old, looped) == IF looped.raised THEN old ELSE looped.new_rows

\* the outcome of a batch method: what it leaves stored, the count returned
batch_end(old, looped) ==
    [raised |-> looped.raised, error |-> looped.error,
     stored |-> stored_after(old, looped), value |-> Len(looped.new_rows)]

\* one batch method run on the rows rs
batch(method, rs) == batch_end(rs, loop(transformed(method, rs)))

\* Faulty variant: descriptions are cleaned before dates are normalized.
\* C10 must reject it.
clean_all_order_swapped ==
    <<"clean_descriptions", "normalize_dates", "standardize_categories">>

\* the batch methods clean_all calls before deduplicate, in order
clean_all_order ==
    <<"normalize_dates", "clean_descriptions", "standardize_categories">>

\* new_rows holds the dicts the transforms built (out = dict(row)): objects
\* the caller has never seen
all_private(rs) == [i \in 1..Len(rs) |-> Private]

\* whether the method assigned self._transactions before it returned or
\* raised: clean_all has once its first call completes, any other method
\* when it returns
assigned(method, done) ==
    IF method = "clean_all"
    THEN ~batch(Head(clean_all_order), cleaner_transactions).raised
    ELSE ~done.raised

\* the caller reaches neither the stored list nor any stored dict
nothing_shared ==
    /\ list_alias = "none"
    /\ \A i \in 1..Len(aliases) : aliases[i] = Private

\* the caller's references to the dicts a method leaves stored: no method
\* hands the caller a stored dict, so with nothing shared nothing is shared
\* afterwards; otherwise deduplicate keeps the first dict of each key and
\* any other assignment stores new dicts
aliases_after(method, done) ==
    IF nothing_shared THEN all_private(done.stored)
    ELSE IF ~assigned(method, done) THEN aliases
    ELSE IF method = "deduplicate"
    THEN unique_from(aliases, keys_of(cleaner_transactions), {})
    ELSE all_private(done.stored)

\* every list assigned to self._transactions is built inside the method
list_alias_after(method, done) ==
    IF list_alias = "none" THEN "none"
    ELSE IF assigned(method, done) THEN "none" ELSE list_alias

\* what a method of the cleaner leaves stored when it returns or raises
leaves(method, done) ==
    /\ cleaner_transactions' = done.stored
    /\ aliases' = aliases_after(method, done)
    /\ list_alias' = list_alias_after(method, done)
    /\ UNCHANGED <<rows, caller_rows, caller_view, accountFields, constructorVars>>

\* a method of the cleaner returns or raises, leaving the rows stored
Return(method, done) ==
    /\ leaves(method, done)
    /\ result' = IF done.raised
                 THEN Result(method, TRUE, 0, FALSE, done.error)
                 ELSE Result(method, FALSE, done.value, FALSE, "")
    /\ UNCHANGED monitorVars

TransactionCleaner_normalize_dates ==
    Return("normalize_dates", batch("normalize_dates", cleaner_transactions))

TransactionCleaner_clean_descriptions ==
    Return("clean_descriptions", batch("clean_descriptions", cleaner_transactions))

TransactionCleaner_standardize_categories ==
    Return("standardize_categories",
           batch("standardize_categories", cleaner_transactions))

\* before - after
deduplicate_end(old, unique) ==
    [raised |-> FALSE, error |-> "", stored |-> unique,
     value |-> Len(old) - Len(unique)]

deduplicate(rs) == deduplicate_end(rs, remove_duplicate_transactions(rs))

TransactionCleaner_deduplicate ==
    Return("deduplicate", deduplicate(cleaner_transactions))

\* the calls made one after the other; an exception ends the run where it
\* is raised, and the last call is deduplicate
RECURSIVE run_methods(_, _)
RECURSIVE run_after(_, _)
run_after(methods, done) ==
    IF done.raised THEN done ELSE run_methods(methods, done.stored)

run_methods(methods, rs) ==
    IF methods = << >> THEN deduplicate(rs)
    ELSE run_after(Tail(methods), batch(Head(methods), rs))

TransactionCleaner_clean_all ==
    Return("clean_all", run_methods(clean_all_order, cleaner_transactions))

\* the three normalization passes of clean_all, without the deduplication
\* that follows them: the rows they leave, or the exception that stops them
RECURSIVE normalization(_, _)
normalization(methods, done) ==
    IF methods = << >> \/ done.raised THEN done
    ELSE normalization(Tail(methods), batch(Head(methods), done.stored))

normalized(rs) ==
    normalization(clean_all_order,
                  [raised |-> FALSE, error |-> "", stored |-> rs, value |-> 0])

NextCleaner ==
    \/ TransactionCleaner_normalize_dates
    \/ TransactionCleaner_clean_descriptions
    \/ TransactionCleaner_standardize_categories
    \/ TransactionCleaner_deduplicate
    \/ TransactionCleaner_clean_all

SpecCleaner == InitCleaner /\ [][NextCleaner]_vars

----------------------------------------------------------------------------
(* Records for the per-record transforms *)

\* dates as they are found in statements: each of the four formats, a year
\* below 1000, and values no format takes
CanonDates ==
    { Str(<<"2","0","2","5","-","0","9","-","0","1">>),   \* "2025-09-01"
      Str(<<"2","0","2","5","/","9","/","1">>),   \* "2025/9/1"
      Str(<<"9","/","1","/","2","0","2","5">>),   \* "9/1/2025"
      Str(<<"0","9","-","0","1","-","2","0","2","5">>),   \* "09-01-2025"
      Str(<<"0","9","9","9","-","0","1","-","0","2">>),   \* "0999-01-02"
      Str(<<"S","e","p","t"," ","1">>),   \* "Sept 1"
      Str(<< >>),   \* ""
      NoneValue }

\* descriptions ending in no, one or two code-like tokens
CanonDescriptions ==
    { Str(<<"A","m","a","z","o","n">>),   \* "Amazon"
      Str(<<"A","m","a","z","o","n"," ","O","R","D","-","1"," ","#","1","2","3">>),   \* "Amazon ORD-1 #123"
      Str(<<"S","p","o","t","i","f","y"," ","#","1","2","3">>),   \* "Spotify #123"
      Str(<<"A","-","B"," ","#","1">>) }  \* "A-B #1"

\* categories: names of the table, a fragment, custom names, canonical
\* names, a custom name with a letter outside ASCII
CanonCategories ==
    { Str(<<"s","u","b","s","c","r">>),   \* "subscr"
      Str(<<"D","i","n","i","n","g">>),   \* "Dining"
      Str(<<"m","y"," ","g","r","o","c","e","r","i","e","s">>),   \* "my groceries"
      Str(<<"a","u","t","o"," ","r","e","p","a","i","r">>),   \* "auto repair"
      Str(<<"F","o","o","d">>),   \* "Food"
      Str(<<DotlessI,"n","t","e","r","n","e","t">>),   \* "internet", its i dotless
      Str(<< >>) }  \* ""

\* single records, under the capitalized keys of a raw statement
CanonRecords ==
    { [Date |-> d, Amount |-> Str(<<"2","5",".","0","0">>), Description |-> x,
       category |-> c] :
        d \in CanonDates, x \in CanonDescriptions, c \in CanonCategories }

\* records that differ in their description only
CanonPairRecords ==
    { [date |-> Str(<<"2","0","2","5","-","0","9","-","0","1">>),
       amount |-> Num(2500), description |-> x,
       category |-> Str(<<"F","o","o","d">>)] : x \in CanonDescriptions }

\* one record, a record without a date, or two records
CanonBatches ==
    { <<r>> : r \in CanonRecords }
    \cup { <<pop(r, "date")>> : r \in CanonPairRecords }
    \cup { <<a, b>> : a \in CanonPairRecords, b \in CanonPairRecords }

InitCanon ==
    /\ rows \in CanonBatches
    /\ arguments = NoArguments
    /\ rules = << >>
    /\ Constructed

SpecCanon == InitCanon /\ [][NextCleaner]_vars

----------------------------------------------------------------------------
(* The caller's side of the cleaner's storage *)

\* TransactionCleaner.transactions: a new list of copies of the stored dicts
TransactionCleaner_transactions ==
    /\ caller_view' = cleaner_transactions
    /\ result' = Result("transactions", FALSE, Len(cleaner_transactions), FALSE, "")
    /\ UNCHANGED <<rows, cleaner_transactions, caller_rows, aliases, list_alias,
                   monitorVars, constructorVars,
                   accountFields>>

\* record["note"] = "x": a change the caller makes to a dict it holds
tampered(row) == put(row, "note", Str(<<"x">>))

\* a write to the dict the caller reaches by a reference is seen wherever
\* that same object is stored
written_through(reference) ==
    [i \in 1..Len(cleaner_transactions) |->
        IF aliases[i] = reference THEN tampered(cleaner_transactions[i])
        ELSE cleaner_transactions[i]]

\* the caller changes a record of the list it gave to the constructor
Caller_mutates_given_row ==
    \E j \in 1..Len(caller_rows) :
        /\ caller_rows' = [caller_rows EXCEPT ![j] = tampered(@)]
        /\ cleaner_transactions' = written_through(<<"given", j>>)
        /\ UNCHANGED <<rows, caller_view, aliases, list_alias, accountFields, result,
                       monitorVars, constructorVars>>

\* the caller changes a record returned by .transactions
Caller_mutates_returned_row ==
    \E j \in 1..Len(caller_view) :
        /\ caller_view' = [caller_view EXCEPT ![j] = tampered(@)]
        /\ cleaner_transactions' = written_through(<<"view", j>>)
        /\ UNCHANGED <<rows, caller_rows, aliases, list_alias, accountFields, result,
                       monitorVars, constructorVars>>

\* a list without its last element: lst.pop()
popped(lst) == SubSeq(lst, 1, Len(lst) - 1)

\* the caller shortens the list returned by .transactions; the cleaner sees
\* it when that list is the one it stores
Caller_mutates_returned_list ==
    /\ caller_view # << >>
    /\ caller_view' = popped(caller_view)
    /\ IF list_alias = "view"
       THEN /\ cleaner_transactions' = popped(cleaner_transactions)
            /\ aliases' = popped(aliases)
       ELSE UNCHANGED <<cleaner_transactions, aliases>>
    /\ UNCHANGED <<rows, caller_rows, list_alias, accountFields, result,
                   monitorVars, constructorVars>>

\* the rows of the batches whose storage is followed
SharingRows == {SampleRows[1], SampleRows[6]}

InitSharing ==
    /\ InitCleaner
    /\ \A i \in 1..Len(rows) : rows[i] \in SharingRows

\* clean_all stands for the three batch methods it calls
NextSharing ==
    \/ TransactionCleaner_deduplicate
    \/ TransactionCleaner_clean_all
    \/ TransactionCleaner_transactions
    \/ Caller_mutates_given_row
    \/ Caller_mutates_returned_row
    \/ Caller_mutates_returned_list

SpecSharing == InitSharing /\ [][NextSharing]_vars

----------------------------------------------------------------------------
(* The caller's side of an account's transaction list *)

\* Faulty variant: get_transactions returns the list the account stores.
\* C23 must reject it.
returned_itself == "stored"

\* self._transactions.copy(): a list the account does not store
returned_copy == "none"

\* Account.get_transactions
Account_get_transactions ==
    /\ caller_view' = transactions
    /\ list_alias' = returned_copy
    /\ result' = Result("get_transactions", FALSE, Len(transactions), FALSE, "")
    /\ UNCHANGED <<accountFields, rows, cleaner_transactions, caller_rows, aliases,
                   monitorVars, constructorVars>>

\* the caller shortens the list get_transactions returned; the account sees
\* it when that list is the one it stores
Caller_mutates_account_list ==
    /\ result.op = "get_transactions"
    /\ caller_view # << >>
    /\ caller_view' = popped(caller_view)
    /\ transactions' = IF list_alias = "stored" THEN popped(transactions)
                       ELSE transactions
    /\ UNCHANGED <<cfg, debits_added_this_month, checks_written,
                   withdrawal_count_this_month, last_withdrawal_month,
                   total_interest_charged, now, result, rows,
                   cleaner_transactions, caller_rows, aliases, list_alias,
                   monitorVars, constructorVars>>

\* the operations on an account and on the list it hands out, the clock
\* standing
NextOwnership ==
    \/ \E txn \in CallerTransactions : Account_add_transaction(txn)
    \/ CheckingAccount_apply_monthly_fees
    \/ \E a \in AskAmounts : CheckingAccount_can_withdraw(a)
    \/ \E n \in CheckNumbers, a \in AskAmounts : CheckingAccount_write_check(n, a)
    \/ SavingsAccount_apply_monthly_fees
    \/ \E a \in AskAmounts : SavingsAccount_can_withdraw(a)
    \/ \E txn \in CallerTransactions : SavingsAccount_add_transaction(txn)
    \/ CreditAccount_apply_monthly_fees
    \/ \E a \in AskAmounts : CreditAccount_can_withdraw(a)
    \/ Account_get_transactions
    \/ Caller_mutates_account_list

SpecOwnership == Init /\ [][NextOwnership]_vars

----------------------------------------------------------------------------
(* The amounts as Python floats *)

\* A Python float is an IEEE 754 binary64: a sign, a significand of 53 bits
\* and an exponent, here [neg, hi, lo, e] with the value
\* (hi * Limb + lo) * 2^e and the significand in two limbs, so that every
\* intermediate stays in the 32-bit range the checker computes in.
Limb == 2^27

Double(neg, hi, lo, e) == [neg |-> neg, hi |-> hi, lo |-> lo, e |-> e]

float_zero == Double(FALSE, 0, 0, 0)

is_zero(x) == x.hi = 0 /\ x.lo = 0

\* a significand <<hi, lo>> with its low limb brought back under Limb
carried(hi, lo) == <<hi + lo \div Limb, lo % Limb>>

significand_sum(x, y) == carried(x[1] + y[1], x[2] + y[2])

\* x - y for x >= y
significand_difference(x, y) ==
    IF x[2] >= y[2] THEN <<x[1] - y[1], x[2] - y[2]>>
    ELSE <<x[1] - y[1] - 1, x[2] + Limb - y[2]>>

significand_less(x, y) == x[1] < y[1] \/ (x[1] = y[1] /\ x[2] < y[2])

\* x shifted left by k < 27 bits
shifted_left(x, k) ==
    <<x[1] * 2^k + x[2] \div 2^(27 - k), (x[2] % 2^(27 - k)) * 2^k>>

sticky(lost, x) == IF lost /\ x[2] % 2 = 0 THEN <<x[1], x[2] + 1>> ELSE x

\* x shifted right by d bits, the lowest bit kept set when a set bit fell off
shifted_right(x, d) ==
    IF d = 0 THEN x
    ELSE IF d < 27
    THEN sticky(x[2] % 2^d # 0,
                <<x[1] \div 2^d,
                  x[2] \div 2^d + (x[1] % 2^d) * (Limb \div 2^d)>>)
    ELSE IF d < 58
    THEN sticky(x[2] # 0 \/ x[1] % 2^(d - 27) # 0,
                <<0, x[1] \div 2^(d - 27)>>)
    ELSE <<0, IF x = <<0, 0>> THEN 0 ELSE 1>>

\* how far a sum with this high limb is shifted left in one step
step_left(hi) ==
    IF hi < 2^14 THEN 14 ELSE IF hi < 2^21 THEN 7 ELSE IF hi < 2^25 THEN 3
    ELSE 1

\* a sum with three more bits than a significand, brought to 56 bits
RECURSIVE normalized_sum(_, _)
normalized_sum(s, e) ==
    IF s[1] >= 2^29 THEN normalized_sum(shifted_right(s, 1), e + 1)
    ELSE IF s[1] = 0 THEN normalized_sum(<<s[2], 0>>, e - 27)
    ELSE IF s[1] < 2^28
    THEN normalized_sum(shifted_left(s, step_left(s[1])),
                        e - step_left(s[1]))
    ELSE <<s, e>>

\* round to nearest, ties to even, of a 56-bit sum to 53 bits
rounded(neg, s, e) ==
    LET low  == s[2] % 8
        kept == <<s[1] \div 8, s[2] \div 8 + (s[1] % 8) * (Limb \div 8)>>
        up   == low > 4 \/ (low = 4 /\ kept[2] % 2 = 1)
        m    == IF up THEN carried(kept[1], kept[2] + 1) ELSE kept
    IN  IF m[1] = 2^26 THEN Double(neg, 2^25, 0, e + 4)
        ELSE Double(neg, m[1], m[2], e + 3)

\* x + y for e of x >= e of y, neither zero
float_sum_aligned(x, y) ==
    LET xs == shifted_left(<<x.hi, x.lo>>, 3)
        ys == shifted_right(shifted_left(<<y.hi, y.lo>>, 3), x.e - y.e)
    IN  IF x.neg = y.neg
        THEN LET n == normalized_sum(significand_sum(xs, ys), x.e - 3)
             IN  rounded(x.neg, n[1], n[2])
        ELSE IF xs = ys THEN float_zero
        ELSE IF significand_less(xs, ys)
        THEN LET n == normalized_sum(significand_difference(ys, xs), x.e - 3)
             IN  rounded(y.neg, n[1], n[2])
        ELSE LET n == normalized_sum(significand_difference(xs, ys), x.e - 3)
             IN  rounded(x.neg, n[1], n[2])

\* the float x + y
float_sum(x, y) ==
    IF is_zero(x) THEN y
    ELSE IF is_zero(y) THEN x
    ELSE IF x.e >= y.e THEN float_sum_aligned(x, y)
    ELSE float_sum_aligned(y, x)

float_negated(x) == IF is_zero(x) THEN x ELSE [x EXCEPT !.neg = ~x.neg]

\* |x| < |y| for floats with full significands
magnitude_less(x, y) ==
    IF is_zero(y) THEN FALSE
    ELSE IF is_zero(x) THEN TRUE
    ELSE x.e < y.e
         \/ (x.e = y.e /\ significand_less(<<x.hi, x.lo>>, <<y.hi, y.lo>>))

\* the float comparison x <= y
float_le(x, y) ==
    IF x = y THEN TRUE
    ELSE IF x.neg /\ ~y.neg THEN TRUE
    ELSE IF ~x.neg /\ y.neg THEN FALSE
    ELSE IF x.neg THEN magnitude_less(y, x)
    ELSE magnitude_less(x, y)

\* rem * 2^s for the least s that brings it to at least half of d
RECURSIVE scaled_up(_, _, _)
scaled_up(rem, d, s) ==
    IF 2 * rem >= d THEN <<rem, s>> ELSE scaled_up(2 * rem, d, s + 1)

\* d * 2^t for the least t that brings it above n
RECURSIVE scaled_divisor(_, _, _)
scaled_divisor(n, d, t) ==
    IF d > n THEN <<d, t>> ELSE scaled_divisor(n, 2 * d, t + 1)

\* the first bits of rem / d in binary, four at a time, and what is left of
\* rem after them
RECURSIVE quotient_bits(_, _, _, _)
quotient_bits(rem, d, bits, m) ==
    IF bits = 0 THEN <<m, rem>>
    ELSE LET k == IF bits < 4 THEN bits ELSE 4
         IN  quotient_bits((rem * 2^k) % d, d, bits - k,
                           <<m[1] * 2^k + m[2] \div 2^(27 - k),
                             (m[2] % 2^(27 - k)) * 2^k + (rem * 2^k) \div d>>)

\* the float nearest to cents / 100: what the literal 0.04 denotes for 4
float_of_cents(cents) ==
    IF cents = 0 THEN float_zero
    ELSE LET n    == IF cents < 0 THEN -cents ELSE cents
             dt   == scaled_divisor(n, 100, 0)
             rs   == scaled_up(n, dt[1], 0)
             q    == quotient_bits(rs[1], dt[1], 53, <<0, 0>>)
             kept == q[1]
             up   == 2 * q[2] > dt[1]
                     \/ (2 * q[2] = dt[1] /\ kept[2] % 2 = 1)
             m    == IF up THEN carried(kept[1], kept[2] + 1) ELSE kept
             e    == dt[2] - rs[2] - 53
         IN  IF m[1] = 2^26 THEN Double(cents < 0, 2^25, 0, e + 1)
             ELSE Double(cents < 0, m[1], m[2], e)

----------------------------------------------------------------------------
(* CheckingAccount in the floats the program computes in *)

\* Transaction.signed_amount of a float amount
float_signed_amount(txn) ==
    IF txn.transaction_type = "credit" THEN float_of_cents(txn.amount)
    ELSE float_negated(float_of_cents(txn.amount))

\* Account.balance: total = 0.0, then total += txn.signed_amount in turn
RECURSIVE float_total(_, _, _)
float_total(txns, i, total) ==
    IF i > Len(txns) THEN total
    ELSE float_total(txns, i + 1, float_sum(total, float_signed_amount(txns[i])))

float_balance(txns) == float_total(txns, 1, float_zero)

\* CheckingAccount.calculate_available_funds: self.balance + self._overdraft_limit
float_available_funds(txns, c) ==
    float_sum(float_balance(txns), float_of_cents(c.overdraft_limit))

\* CheckingAccount.can_withdraw on floats
float_can_withdraw(amount, available) ==
    IF amount <= 0 THEN [allowed |-> FALSE, reason |-> "positive"]
    ELSE IF float_le(float_of_cents(amount), available)
    THEN [allowed |-> TRUE, reason |-> ""]
    ELSE [allowed |-> FALSE, reason |-> "funds"]

\* CheckingAccount.write_check(check_number, amount, payee), the amount
\* written as a literal of so many cents
write_check(check_number, amount) ==
    /\ cfg.kind = "checking"
    /\ Len(transactions) < MaxTxns
    /\ LET r == float_can_withdraw(amount,
                                   float_available_funds(transactions, cfg))
       IN  IF InSeq(check_number, checks_written)
           THEN /\ result' = Result("write_check", TRUE, 0, FALSE, "already written")
                /\ UNCHANGED <<transactions, debits_added_this_month, checks_written>>
           ELSE IF amount <= 0
           THEN /\ result' = Result("write_check", TRUE, 0, FALSE, "positive")
                /\ UNCHANGED <<transactions, debits_added_this_month, checks_written>>
           ELSE IF ~r.allowed
           THEN /\ result' = Result("write_check", TRUE, 0, FALSE, r.reason)
                /\ UNCHANGED <<transactions, debits_added_this_month, checks_written>>
           ELSE IF ~validate_transaction_amount(amount)
           THEN \* the Transaction constructor raises ValueError
                /\ result' = Result("write_check", TRUE, 0, FALSE, "invalid amount")
                /\ UNCHANGED <<transactions, debits_added_this_month, checks_written>>
           ELSE /\ AppendTxn(Transaction("CHK", amount, "Check Payment",
                                         SelfId, "debit"))
                /\ checks_written' = Append(checks_written, check_number)
                /\ result' = Result("write_check", FALSE, amount, FALSE, "")
    /\ UNCHANGED cleanerVars
    /\ UNCHANGED <<cfg, withdrawal_count_this_month, last_withdrawal_month,
                   total_interest_charged, now>>

\* Checking accounts with an overdraft of a few cents, and checks of a few
\* cents drawn on them.
OverdraftConfigs ==
    { [kind |-> "checking", overdraft_limit |-> l, monthly_fee |-> 1000,
       minimum_balance |-> 50000] : l \in {0, 11, 21} }

CheckAmounts == {0, 4, 7, 8, 13, MAX_AMOUNT_CENTS + 1}

InitOverdraft ==
    /\ cfg \in OverdraftConfigs
    /\ transactions = << >>
    /\ debits_added_this_month = 0
    /\ checks_written = << >>
    /\ withdrawal_count_this_month = 0
    /\ last_withdrawal_month = None
    /\ total_interest_charged = 0
    /\ now = 0
    /\ result = Result("init", FALSE, 0, FALSE, "")
    /\ rows = << >>
    /\ cleaner_transactions = << >>
    /\ caller_rows = << >>
    /\ caller_view = << >>
    /\ aliases = << >>
    /\ list_alias = "none"
    /\ rules = << >>
    /\ analysis = [returned |-> FALSE, alerts |-> << >>]
    /\ arguments = NoArguments
    /\ created = NoObject
    /\ transaction_count = 0

\* write_check alone
NextOverdraft ==
    \E n \in CheckNumbers \cup {1003}, a \in CheckAmounts : write_check(n, a)

SpecOverdraft == InitOverdraft /\ [][NextOverdraft]_vars

----------------------------------------------------------------------------
(* SavingsAccount in the floats the program computes in *)

\* SavingsAccount.calculate_available_funds:
\* max(0, self.balance - self._minimum_balance)
float_savings_available(txns, c) ==
    LET available == float_sum(float_balance(txns),
                               float_negated(float_of_cents(c.minimum_balance)))
    IN  IF float_le(available, float_zero) THEN float_zero ELSE available

\* SavingsAccount.can_withdraw on floats: (allowed, reason) and the count it
\* leaves
float_savings_can_withdraw(amount, available, c, count, last, month) ==
    LET reset == reset_withdrawal_count_if_new_month(count, last, month)
    IN  IF amount <= 0
        THEN [allowed |-> FALSE, reason |-> "positive", count |-> count]
        ELSE IF Savings_limit_reached(reset, c)
        THEN [allowed |-> FALSE, reason |-> "limit", count |-> reset]
        ELSE IF ~float_le(float_of_cents(amount), available)
        THEN [allowed |-> FALSE, reason |-> "funds", count |-> reset]
        ELSE [allowed |-> TRUE, reason |-> "", count |-> reset]

\* SavingsAccount.add_transaction(transaction), the amount of the transaction
\* written as a literal of so many cents
add_transaction(txn) ==
    /\ cfg.kind = "savings"
    /\ Len(transactions) < MaxTxns
    /\ IF txn.transaction_type = "debit"
       THEN LET r == float_savings_can_withdraw(
                         txn.amount, float_savings_available(transactions, cfg),
                         cfg, withdrawal_count_this_month,
                         last_withdrawal_month, current_month)
            IN  IF ~r.allowed
                THEN /\ withdrawal_count_this_month' = r.count
                     /\ result' = Result("add_transaction", TRUE, 0, FALSE, r.reason)
                     /\ UNCHANGED <<transactions, debits_added_this_month,
                                    last_withdrawal_month>>
                ELSE /\ withdrawal_count_this_month' =
                           reset_withdrawal_count_if_new_month(
                               r.count, last_withdrawal_month, current_month) + 1
                     /\ last_withdrawal_month' = current_month
                     /\ IF ~belongs(txn)
                        THEN /\ result' = Result("add_transaction", TRUE, 0,
                                                 FALSE, "mismatch")
                             /\ UNCHANGED <<transactions, debits_added_this_month>>
                        ELSE /\ AppendTxn(txn)
                             /\ result' = Result("add_transaction", FALSE, 0,
                                                 FALSE, "")
       ELSE /\ IF ~belongs(txn)
               THEN /\ result' = Result("add_transaction", TRUE, 0, FALSE, "mismatch")
                    /\ UNCHANGED <<transactions, debits_added_this_month>>
               ELSE /\ AppendTxn(txn)
                    /\ result' = Result("add_transaction", FALSE, 0, FALSE, "")
            /\ UNCHANGED <<withdrawal_count_this_month, last_withdrawal_month>>
    /\ UNCHANGED cleanerVars
    /\ UNCHANGED <<cfg, checks_written, total_interest_charged, now>>

\* Savings accounts with a minimum balance of a few cents, and transactions
\* of a few cents for them.
SmallSavingsConfigs ==
    { [kind |-> "savings", interest_rate |-> 400, minimum_balance |-> m,
       monthly_withdrawal_limit |-> 6, low_balance_fee |-> 1500] :
         m \in {0, 1, 2} }

SmallTransactions ==
    { Transaction("TXN", a, "General", id, t) :
        a \in {7, 8, 15}, id \in {SelfId, OtherId}, t \in {"debit", "credit"} }

InitSmallSavings ==
    /\ cfg \in SmallSavingsConfigs
    /\ transactions = << >>
    /\ debits_added_this_month = 0
    /\ checks_written = << >>
    /\ withdrawal_count_this_month = 0
    /\ last_withdrawal_month = None
    /\ total_interest_charged = 0
    /\ now = 0
    /\ result = Result("init", FALSE, 0, FALSE, "")
    /\ rows = << >>
    /\ cleaner_transactions = << >>
    /\ caller_rows = << >>
    /\ caller_view = << >>
    /\ aliases = << >>
    /\ list_alias = "none"
    /\ rules = << >>
    /\ analysis = [returned |-> FALSE, alerts |-> << >>]
    /\ arguments = NoArguments
    /\ created = NoObject
    /\ transaction_count = 0

\* add_transaction alone
NextSmallSavings == \E txn \in SmallTransactions : add_transaction(txn)

SpecSmallSavings == InitSmallSavings /\ [][NextSmallSavings]_vars

----------------------------------------------------------------------------
(* AlertRule subclasses and StatementMonitor *)

LargeTransactionRule(threshold) ==
    [kind |-> "large", name |-> "Large Transaction", threshold |-> threshold]

CategoryLimitRule(category, per_tx_limit) ==
    [kind |-> "category", name |-> category \o " per-transaction limit",
     category |-> category, per_tx_limit |-> per_tx_limit]

\* the keywords are kept in lower case
SuspiciousMerchantRule(suspicious_keywords) ==
    [kind |-> "suspicious", name |-> "Suspicious merchant/description",
     suspicious_keywords |->
        [i \in 1..Len(suspicious_keywords) |-> lower(suspicious_keywords[i])]]

\* float(amount_raw) in cents, or ok = FALSE for TypeError and ValueError
float_or_error(amount_raw) ==
    IF amount_raw = NoneValue THEN [ok |-> FALSE]
    ELSE IF amount_raw[1] = "num" THEN [ok |-> TRUE, cents |-> amount_raw[2]]
    ELSE float_cents(strip(amount_raw[2]))

\* what check returns: None, or the message
NoAlert == [alert |-> FALSE]

\* the message of a rule about tx: the rule's name, the amount or keyword it
\* reports, tx.get('date') and tx.get('description')
Message(rule, detail, tx) ==
    [alert |-> TRUE, name |-> rule.name, detail |-> detail,
     date |-> get(tx, "date", NoneValue),
     description |-> get(tx, "description", NoneValue)]

\* LargeTransactionRule.check once float(amount_raw) has been tried
large_by_value(rule, tx, amount) ==
    IF ~amount.ok THEN NoAlert
    ELSE IF amount.cents >= rule.threshold
    THEN Message(rule, Num(amount.cents), tx)
    ELSE NoAlert

LargeTransactionRule_check(rule, tx) ==
    large_by_value(rule, tx, float_or_error(get(tx, "amount", NoneValue)))

\* CategoryLimitRule.check once float(amount_raw) has been tried
over_limit(rule, tx, amount) ==
    IF ~amount.ok THEN NoAlert
    ELSE IF amount.cents > rule.per_tx_limit
    THEN Message(rule, Num(amount.cents), tx)
    ELSE NoAlert

CategoryLimitRule_check(rule, tx) ==
    IF get(tx, "category", NoneValue) # Str(rule.category) THEN NoAlert
    ELSE over_limit(rule, tx, float_or_error(get(tx, "amount", NoneValue)))

\* the loop over the keywords: the first one found in desc
first_keyword(rule, tx, desc) ==
    IF \E i \in 1..Len(rule.suspicious_keywords) :
          contains(desc, rule.suspicious_keywords[i])
    THEN Message(rule,
                 Str(rule.suspicious_keywords[
                     CHOOSE i \in 1..Len(rule.suspicious_keywords) :
                        /\ contains(desc, rule.suspicious_keywords[i])
                        /\ \A j \in 1..(i - 1) :
                              ~contains(desc, rule.suspicious_keywords[j])]),
                 tx)
    ELSE NoAlert

\* (tx.get("description") or "").lower()
description_lower(value) == IF truthy(value) THEN lower(value[2]) ELSE << >>

SuspiciousMerchantRule_check(rule, tx) ==
    first_keyword(rule, tx, description_lower(get(tx, "description", NoneValue)))

\* rule.check(tx), by the class of the rule
check(rule, tx) ==
    CASE rule.kind = "large" -> LargeTransactionRule_check(rule, tx)
      [] rule.kind = "category" -> CategoryLimitRule_check(rule, tx)
      [] rule.kind = "suspicious" -> SuspiciousMerchantRule_check(rule, tx)

\* if msg is not None: alerts.append(msg)
appended_unless_none(msg, later) == IF msg.alert THEN <<msg>> \o later ELSE later

\* for rule in self._rules, for one tx
RECURSIVE checked(_, _)
checked(tx, rs) ==
    IF rs = << >> THEN << >>
    ELSE appended_unless_none(check(Head(rs), tx), checked(tx, Tail(rs)))

\* Faulty variant: the loop over the rules is the outer one.  C19 must
\* reject it.
RECURSIVE checked_by_rule(_, _)
RECURSIVE alerts_rule_major(_, _)
checked_by_rule(rule, txs) ==
    IF txs = << >> THEN << >>
    ELSE appended_unless_none(check(rule, Head(txs)),
                              checked_by_rule(rule, Tail(txs)))

alerts_rule_major(txs, rs) ==
    IF rs = << >> THEN << >>
    ELSE checked_by_rule(Head(rs), txs) \o alerts_rule_major(txs, Tail(rs))

\* for tx in self._cleaner.transactions: for rule in self._rules
RECURSIVE alerts_record_major(_, _)
alerts_record_major(txs, rs) ==
    IF txs = << >> THEN << >>
    ELSE checked(Head(txs), rs) \o alerts_record_major(Tail(txs), rs)

\* run_full_analysis after self._cleaner.clean_all(): its exception is not
\* caught, so nothing is returned; otherwise the alerts are
analysed(done) ==
    IF done.raised THEN [returned |-> FALSE, alerts |-> << >>]
    ELSE [returned |-> TRUE, alerts |-> alerts_record_major(done.stored, rules)]

run_full_analysis_end(done) ==
    /\ leaves("clean_all", done)
    /\ analysis' = analysed(done)
    /\ result' = Result("run_full_analysis", done.raised, 0, FALSE, done.error)
    /\ UNCHANGED rules

StatementMonitor_run_full_analysis ==
    run_full_analysis_end(run_methods(clean_all_order, cleaner_transactions))

\* the rules of a monitor built with rules=None
default_rules ==
    << LargeTransactionRule(50000),
       CategoryLimitRule("Dining", 12000),
       SuspiciousMerchantRule(<< <<"u","n","k","n","o","w","n">>,
                                 <<"c","a","s","h"," ","a","p","p">>,
                                 <<"m","o","n","e","y"," ","t","r","a","n","s","f","e","r">> >>) >>

\* rules a caller passes: the default ones, the same kinds in another order
\* with the category clean_all writes, one rule, none
MonitorRules ==
    { default_rules,
      << SuspiciousMerchantRule(<< <<"C","a","s","h"," ","A","p","p">> >>),
         CategoryLimitRule("Food", 12000),
         LargeTransactionRule(50000) >>,
      << LargeTransactionRule(50000) >>,
      << >> }

\* records of a statement: amounts above, at and below the thresholds, as
\* numbers and as text, negative, unreadable, None and missing; descriptions
\* with and without a keyword; categories
MonitorRecords ==
    { [date |-> Str(<<"9","/","1","/","2","0","2","5">>), amount |-> a,
       description |-> x, category |-> c] :
        a \in { Num(60000), Num(-60000), Num(50000), Num(13000),
                Str(<<"6","0","0",".","0","0">>), Str(<<"n","/","a">>),
                NoneValue },
        x \in { Str(<<"C","a","s","h"," ","A","p","p">>),
                Str(<<"C","a","f","e"," ","#","1","2","3">>) },
        c \in { Str(<<"D","i","n","i","n","g">>),
                Str(<<"S","h","o","p","p","i","n","g">>) } }
    \cup { [date |-> Str(<<"9","/","1","/","2","0","2","5">>),
            description |-> x, category |-> Str(<<"D","i","n","i","n","g">>)] :
            x \in { Str(<<"C","a","s","h"," ","A","p","p">>),
                    Str(<<"C","a","f","e"," ","#","1","2","3">>) } }

\* records that differ in their amount only
MonitorPairRecords ==
    { [date |-> Str(<<"9","/","1","/","2","0","2","5">>), amount |-> a,
       description |-> Str(<<"C","a","s","h"," ","A","p","p">>),
       category |-> Str(<<"D","i","n","i","n","g">>)] :
        a \in { Num(60000), Num(-60000), Str(<<"6","0","0",".","0","0">>),
                Num(13000) } }

\* one record, one record whose date cannot be read, or two records
MonitorBatches ==
    { <<r>> : r \in MonitorRecords }
    \cup { <<put(r, "date", Str(<<"S","e","p","t"," ","1">>))>> :
            r \in MonitorPairRecords }
    \cup { <<a, b>> : a \in MonitorPairRecords, b \in MonitorPairRecords }

\* StatementMonitor(rows, rules)
InitMonitor ==
    /\ rows \in MonitorBatches
    /\ arguments = NoArguments
    /\ rules \in MonitorRules
    /\ Constructed

NextMonitor == StatementMonitor_run_full_analysis

SpecMonitor == InitMonitor /\ [][NextMonitor]_vars

----------------------------------------------------------------------------
(* Transaction.__init__ and the validators it calls *)

\* the bound on Transaction._transaction_count
MaxCreated == 2

\* what a validator or the constructor raises
TransactionError(type, message) ==
    [raised |-> TRUE, error |-> type, message |-> message]

\* what a validator returns
Valid(value) == [raised |-> FALSE, value |-> value]

\* float('nan'): a float that is neither <= nor > any number
NaN == <<"nan">>

\* validate_transaction_amount with its isinstance check; for nan both
\* comparisons are false, so neither return False is taken
amount_validated(amount) ==
    IF amount = NaN THEN Valid(TRUE)
    ELSE IF amount[1] # "num"
    THEN TransactionError("TypeError", "Amount must be a number")
    ELSE Valid(validate_transaction_amount(amount[2]))

\* datetime.now(), as a date
today == [ok |-> TRUE, year |-> 2026, month |-> 11, day |-> 4]

\* parsed_date > datetime.now(), for a parsed_date at midnight
later_than(d, e) ==
    \/ d.year > e.year
    \/ d.year = e.year /\ d.month > e.month
    \/ d.year = e.year /\ d.month = e.month /\ d.day > e.day

\* validate_date_format once strptime has been tried
date_accepted(parsed) ==
    IF ~parsed.ok THEN FALSE
    ELSE IF later_than(parsed, today) THEN FALSE
    ELSE IF parsed.year < 1900 THEN FALSE
    ELSE TRUE

validate_date_format(date_string) ==
    IF date_string[1] # "str"
    THEN TransactionError("TypeError", "Date must be a string")
    ELSE Valid(date_accepted(strptime(date_string[2], fmts[1])))

valid_categories ==
    { <<"s","u","b","s","c","r","i","p","t","i","o","n">>,
      <<"s","u","b","s","c","r","i","p","t","i","o","n","s">>,
      <<"b","i","l","l">>,
      <<"b","i","l","l","s">>,
      <<"f","o","o","d">>,
      <<"g","r","o","c","e","r","i","e","s">>,
      <<"e","n","t","e","r","t","a","i","n","m","e","n","t">>,
      <<"t","r","a","n","s","p","o","r","t","a","t","i","o","n">>,
      <<"t","r","a","n","s","p","o","r","t">>,
      <<"u","t","i","l","i","t","i","e","s">>,
      <<"h","e","a","l","t","h","c","a","r","e">>,
      <<"h","e","a","l","t","h">>,
      <<"s","h","o","p","p","i","n","g">>,
      <<"r","e","t","a","i","l">>,
      <<"d","e","b","t">>,
      <<"l","o","a","n">>,
      <<"i","n","c","o","m","e">>,
      <<"s","a","l","a","r","y">>,
      <<"o","t","h","e","r">> }

\* validate_category(category, allow_custom=True)
validate_category(category) ==
    IF category[1] # "str"
    THEN TransactionError("TypeError", "Category must be a string")
    ELSE IF strip(category[2]) = << >>
    THEN TransactionError("ValueError", "Category cannot be empty or only whitespace")
    ELSE IF lower(strip(category[2])) \in valid_categories THEN Valid(TRUE)
    ELSE IF Len(category[2]) > 50 THEN Valid(FALSE)
    ELSE IF ~\E i \in 1..Len(category[2]) :
                isupper(category[2][i]) \/ islower(category[2][i])
    THEN Valid(FALSE)
    ELSE Valid(TRUE)

\* the object once every validation has passed: category.strip() and
\* description.strip(); a description that is not a str (an empty list gets
\* this far) has no strip
object_of(a) ==
    IF a.description[1] # "str"
    THEN TransactionError("AttributeError", "object has no attribute 'strip'")
    ELSE [raised |-> FALSE,
          object |-> [exists |-> TRUE,
                      transaction_id |-> a.transaction_id, amount |-> a.amount,
                      date |-> a.date, category |-> Str(strip(a.category[2])),
                      account_id |-> a.account_id,
                      transaction_type |-> a.transaction_type,
                      description |-> Str(strip(a.description[2]))]]

\* len(description), or -1 where len() raises TypeError
len(value) == IF value[1] \in {"str", "list"} THEN Len(value[2]) ELSE -1

\* Validate description (optional)
description_checked(a) ==
    IF truthy(a.description) /\ a.description[1] # "str"
    THEN TransactionError("TypeError", "Description must be a string")
    ELSE IF len(a.description) < 0
    THEN TransactionError("TypeError", "object has no len()")
    ELSE IF len(a.description) > 500
    THEN TransactionError("ValueError", "Description cannot exceed 500 characters")
    ELSE object_of(a)

\* Validate transaction_type
type_checked(a) ==
    IF a.transaction_type \notin {"debit", "credit"}
    THEN TransactionError("ValueError", "Transaction type must be 'debit' or 'credit'")
    ELSE description_checked(a)

\* Validate account_id
account_id_checked(a) ==
    IF a.account_id[1] # "str"
    THEN TransactionError("TypeError", "Account ID must be a string")
    ELSE IF strip(a.account_id[2]) = << >>
    THEN TransactionError("ValueError", "Account ID cannot be empty")
    ELSE type_checked(a)

\* Validate category
category_checked(a, v) ==
    IF v.raised THEN v
    ELSE IF ~v.value THEN TransactionError("ValueError", "Invalid category")
    ELSE account_id_checked(a)

\* Validate date
date_checked(a, v) ==
    IF v.raised THEN v
    ELSE IF ~v.value THEN TransactionError("ValueError", "Invalid date")
    ELSE category_checked(a, validate_category(a.category))

\* Validate amount
amount_checked(a, v) ==
    IF v.raised THEN v
    ELSE IF ~v.value THEN TransactionError("ValueError", "Invalid amount")
    ELSE date_checked(a, validate_date_format(a.date))

\* Transaction.__init__: the validations in the order written, from
\* transaction_id on
Transaction_init(a) ==
    IF a.transaction_id[1] # "str"
    THEN TransactionError("TypeError", "Transaction ID must be a string")
    ELSE IF strip(a.transaction_id[2]) = << >>
    THEN TransactionError("ValueError", "Transaction ID cannot be empty")
    ELSE amount_checked(a, amount_validated(a.amount))

\* the call ends: an exception and no object, or the object and one more
\* counted
constructed(done) ==
    /\ result' = IF done.raised
                 THEN Result("Transaction", TRUE, 0, FALSE, done.message)
                 ELSE Result("Transaction", FALSE, 0, FALSE, "")
    /\ created' = IF done.raised THEN created ELSE done.object
    /\ transaction_count' = IF done.raised THEN transaction_count
                            ELSE transaction_count + 1
    /\ UNCHANGED <<arguments, accountFields, rows, cleaner_transactions,
                   callerVars, monitorVars>>

\* Transaction(transaction_id, amount, date, category, account_id,
\*             transaction_type, description)
Transaction_new ==
    /\ arguments.called
    /\ transaction_count < MaxCreated
    /\ constructed(Transaction_init(arguments))

\* an empty list, which is not a str and is false
EmptyList == <<"list", << >>>>

\* arguments of each kind the validations tell apart
TransactionArguments ==
    [called : {TRUE},
     transaction_id : {Str(<<"T","1">>), Str(<<" ">>), Num(100)},
     amount : {Num(5000), Num(0), Num(-100), Num(MAX_AMOUNT_CENTS),
               Num(MAX_AMOUNT_CENTS + 1), NaN, Str(<<"5","0">>)},
     date : {Str(<<"2","0","2","5","-","1","0","-","1","5">>),
             Str(<<"2","9","9","9","-","0","1","-","0","1">>),
             Str(<<"1","0","/","1","5","/","2","0","2","5">>), NoneValue},
     category : {Str(<<"F","o","o","d"," ">>), Str(<<" ">>), Str(<<"1","2","3">>),
                 NoneValue},
     account_id : {Str(<<"A","1">>), Str(<< >>), Num(100)},
     transaction_type : {"debit", "credit", "refund"},
     description : {Str(<< >>), Str(<<"l","u","n","c","h"," ">>),
                    Str([i \in 1..501 |-> "x"]), Num(500), NoneValue,
                    EmptyList}]

InitTransaction ==
    /\ arguments \in TransactionArguments
    /\ rows = << >>
    /\ rules = << >>
    /\ Constructed

\* a setter ends: an exception and the object as it was, or the attribute
\* assigned
set_end(attribute, done) ==
    /\ result' = IF done.raised
                 THEN Result(attribute, TRUE, 0, FALSE, done.message)
                 ELSE Result(attribute, FALSE, 0, FALSE, "")
    /\ created' = IF done.raised THEN created
                  ELSE [created EXCEPT ![attribute] = done.value]
    /\ UNCHANGED <<arguments, transaction_count, accountFields, rows,
                   cleaner_transactions, callerVars, monitorVars>>

\* the category setter once validate_category has returned or raised
category_set(new_category, v) ==
    IF v.raised THEN v
    ELSE IF ~v.value THEN TransactionError("ValueError", "Invalid category")
    ELSE Valid(Str(strip(new_category[2])))

\* transaction.category = new_category
Transaction_category_setter ==
    /\ created.exists
    /\ \E new_category \in {Str(<<"B","i","l","l","s"," ">>), Str(<<"1","2","3">>),
                             NoneValue} :
          set_end("category",
                  category_set(new_category, validate_category(new_category)))

description_set(new_description) ==
    IF new_description[1] # "str"
    THEN TransactionError("TypeError", "Description must be a string")
    ELSE IF Len(new_description[2]) > 500
    THEN TransactionError("ValueError", "Description cannot exceed 500 characters")
    ELSE Valid(Str(strip(new_description[2])))

\* transaction.description = new_description
Transaction_description_setter ==
    /\ created.exists
    /\ \E new_description \in {Str(<<"p","a","i","d"," ">>),
                                Str([i \in 1..501 |-> "x"]), NoneValue} :
          set_end("description", description_set(new_description))

\* to_dict(): the attributes read, none assigned
Transaction_to_dict ==
    /\ created.exists
    /\ result' = Result("to_dict", FALSE, 0, FALSE, "")
    /\ UNCHANGED <<arguments, created, transaction_count, accountFields, rows,
                   cleaner_transactions, callerVars, monitorVars>>

NextTransaction ==
    \/ Transaction_new
    \/ Transaction_category_setter
    \/ Transaction_description_setter
    \/ Transaction_to_dict

SpecTransaction == InitTransaction /\ [][NextTransaction]_vars

----------------------------------------------------------------------------
(* Properties of the account ledger *)

\* The sum the claims speak of: +amount for a credit, -amount for a debit.
RECURSIVE LedgerSum(_)
LedgerSum(txns) ==
    IF txns = << >> THEN 0
    ELSE (IF Head(txns).transaction_type = "credit"
          THEN Head(txns).amount ELSE -Head(txns).amount) + LedgerSum(Tail(txns))

\* C1: in every reachable state of every account variant, after calls that
\* succeeded or raised, the balance the account reports equals the sum of
\* +amount over its credits and -amount over its debits.
C1_BalanceIsLedgerSum == balance = LedgerSum(transactions)

\* a failed call has just left an account that holds credits and debits
C1_Witness ==
    /\ result.raised
    /\ Len(transactions) >= 2
    /\ \E i, j \in 1..Len(transactions) :
          /\ transactions[i].transaction_type = "credit"
          /\ transactions[j].transaction_type = "debit"
    /\ balance # 0

\* C2: add_transaction with a transaction of another account raises and
\* leaves the transaction list and the balance as they were; with a matching
\* account id the base method appends exactly that transaction at the end
\* (and so does the savings override whenever it does not raise).
C2_AddTransactionChecksAccount ==
    [][ \A txn \in CallerTransactions :
          /\ ( /\ Account_add_transaction(txn) \/ SavingsAccount_add_transaction(txn)
               /\ txn.account_id # SelfId )
             => /\ result'.raised
                /\ transactions' = transactions
                /\ balance' = balance
          /\ (Account_add_transaction(txn) /\ txn.account_id = SelfId)
             => /\ ~result'.raised
                /\ transactions' = Append(transactions, txn)
          /\ (SavingsAccount_add_transaction(txn) /\ ~result'.raised)
             => transactions' = Append(transactions, txn)
      ]_vars

\* a mismatched transaction was refused by an account that already holds some
C2_Witness ==
    /\ result.op = "add_transaction"
    /\ result.raised
    /\ result.reason = "mismatch"
    /\ Len(transactions) > 0

\* The withdrawal count that is in force: a count left from another month
\* does not apply.
EffectiveCount ==
    IF last_withdrawal_month # current_month THEN 0
    ELSE withdrawal_count_this_month

\* can_withdraw(amount) is False for the debit txn, in the claim's words
C3_Denied(txn) ==
    \/ txn.amount > Max(0, balance - cfg.minimum_balance)
    \/ EffectiveCount >= cfg.monthly_withdrawal_limit

C5_CheckingFeeCharged ==
    [][ CheckingAccount_apply_monthly_fees
        => IF balance < cfg.minimum_balance
           THEN /\ ~result'.raised
                /\ result'.value = cfg.monthly_fee
                /\ Len(transactions') = Len(transactions) + 1
                /\ SubSeq(transactions', 1, Len(transactions)) = transactions
                /\ transactions'[Len(transactions')].amount = cfg.monthly_fee
                /\ transactions'[Len(transactions')].transaction_type = "debit"
                /\ transactions'[Len(transactions')].category = "Bank Fees"
                /\ balance' = balance - cfg.monthly_fee
           ELSE /\ ~result'.raised
                /\ result'.value = 0
                /\ transactions' = transactions
      ]_vars

\* the amounts of the interest transactions the account itself has posted
RECURSIVE InterestPosted(_)
InterestPosted(txns) ==
    IF txns = << >> THEN 0
    ELSE (IF Head(txns).transaction_id = "INT" THEN Head(txns).amount ELSE 0)
         + InterestPosted(Tail(txns))

\* round(|balance| * apr / 100 / 12, 2), in cents
C6_Interest == RoundHalfEven(Abs(balance), cfg.apr, 120000)

C6_Untouched ==
    /\ transactions' = transactions
    /\ total_interest_charged' = total_interest_charged

C6_Posted(i) ==
    /\ ~result'.raised
    /\ result'.value = i
    /\ Len(transactions') = Len(transactions) + 1
    /\ SubSeq(transactions', 1, Len(transactions)) = transactions
    /\ transactions'[Len(transactions')].amount = i
    /\ transactions'[Len(transactions')].transaction_type = "debit"
    /\ total_interest_charged' = total_interest_charged + i

C6_TotalIsInterestPosted ==
    cfg.kind = "credit" => total_interest_charged = InterestPosted(transactions)

\* C6 as stated: with balance < 0 apply_monthly_fees of a credit account
\* returns the rounded interest, appends one debit of that amount and adds it
\* to total_interest_charged; with balance >= 0 it returns 0 and changes
\* nothing; total_interest_charged is always the sum of the interest posted.
C6_Original ==
    /\ []C6_TotalIsInterestPosted
    /\ [][ CreditAccount_apply_monthly_fees
           => IF balance < 0 THEN C6_Posted(C6_Interest)
              ELSE ~result'.raised /\ result'.value = 0 /\ C6_Untouched
         ]_vars

\* C6 amended: with balance < 0 and a rounded interest i, the call posts i
\* (returns i, appends one debit of i, adds i to total_interest_charged) when
\* 0 < i <= 1,000,000; it returns 0 and changes nothing when i = 0; it raises
\* and changes nothing when i > 1,000,000.  With balance >= 0 it returns 0 and
\* changes nothing.  total_interest_charged is always the sum of the interest
\* posted.
C6_InterestCharged ==
    /\ []C6_TotalIsInterestPosted
    /\ [][ CreditAccount_apply_monthly_fees
           => IF balance >= 0
              THEN ~result'.raised /\ result'.value = 0 /\ C6_Untouched
              ELSE IF C6_Interest = 0
              THEN ~result'.raised /\ result'.value = 0 /\ C6_Untouched
              ELSE IF C6_Interest > MAX_AMOUNT_CENTS
              THEN result'.raised /\ C6_Untouched
              ELSE C6_Posted(C6_Interest)
         ]_vars

\* interest was posted twice, the second time on a debt grown by the first
C6_Witness ==
    /\ cfg.kind = "credit"
    /\ result.op = "apply_monthly_fees"
    /\ result.value > 0
    /\ Len(transactions) = 3
    /\ transactions[2].transaction_id = "INT"
    /\ transactions[3].transaction_id = "INT"
    /\ transactions[3].amount > transactions[2].amount
    /\ total_interest_charged = transactions[2].amount + transactions[3].amount

\* C7: calculate_available_funds of a credit account is
\* max(0, credit_limit - |balance|) while money is owed and
\* credit_limit + balance otherwise, and it is never negative, also once
\* interest has carried the debt over the limit.
C7_AvailableCredit ==
    cfg.kind = "credit"
    => LET available == Credit_calculate_available_funds(balance, cfg)
       IN  /\ available >= 0
           /\ balance < 0 =>
                available = (IF cfg.credit_limit - Abs(balance) > 0
                             THEN cfg.credit_limit - Abs(balance) ELSE 0)
           /\ balance >= 0 => available = cfg.credit_limit + balance

\* interest has carried a debt that was within the limit over it
C7_Witness ==
    /\ cfg.kind = "credit"
    /\ Len(transactions) >= 2
    /\ transactions[1].amount <= cfg.credit_limit
    /\ \A i \in 2..Len(transactions) : transactions[i].transaction_id = "INT"
    /\ -balance > cfg.credit_limit
    /\ Credit_calculate_available_funds(balance, cfg) = 0

\* C8: apply_monthly_fees of a savings account posts nothing: it leaves the
\* transaction list, the balance and the withdrawal counter as they were and
\* returns -round(balance * rate / 12, 2) if balance >= minimum_balance, else
\* low_balance_fee; called again with nothing in between, it returns the same.
C8_SavingsFeesPostNothing ==
    [][ SavingsAccount_apply_monthly_fees
        => /\ ~result'.raised
           /\ transactions' = transactions
           /\ balance' = balance
           /\ withdrawal_count_this_month' = withdrawal_count_this_month
           /\ last_withdrawal_month' = last_withdrawal_month
           /\ result'.value =
                (IF balance >= cfg.minimum_balance
                 THEN -RoundHalfEven(balance, cfg.interest_rate, 120000)
                 ELSE cfg.low_balance_fee)
           /\ result.op = "apply_monthly_fees" => result'.value = result.value
      ]_vars

\* interest was reported on a balance that the report did not change
C8_Witness ==
    /\ cfg.kind = "savings"
    /\ result.op = "apply_monthly_fees"
    /\ result.value < 0
    /\ balance > 0
    /\ Len(transactions) = 1

----------------------------------------------------------------------------
(* Properties of the cleaner *)

BatchMethods == {"normalize_dates", "clean_descriptions", "standardize_categories"}

\* what a batch call must do on the records held before it, whose transforms
\* are the outcomes
C9_AllOrNothing(before, outcomes) ==
    IF \E i \in 1..Len(before) : outcomes[i].raised
    THEN /\ result'.raised
         /\ cleaner_transactions' = before
    ELSE /\ ~result'.raised
         /\ result'.value = Len(before)
         /\ Len(cleaner_transactions') = Len(before)
         /\ \A i \in 1..Len(before) : cleaner_transactions'[i] = outcomes[i].row

\* C9: for normalize_dates, clean_descriptions and standardize_categories:
\* if the transform raises on any record of the batch, at any position, the
\* call raises and the stored sequence is exactly what it was before the
\* call; if no record raises, every record is replaced by its transform and
\* the call returns the number of records.
C9_BatchAllOrNothing ==
    [][ /\ TransactionCleaner_normalize_dates
           => C9_AllOrNothing(cleaner_transactions,
                 [i \in 1..Len(cleaner_transactions) |->
                     normalize_date_format(cleaner_transactions[i])])
        /\ TransactionCleaner_clean_descriptions
           => C9_AllOrNothing(cleaner_transactions,
                 [i \in 1..Len(cleaner_transactions) |->
                     clean_transaction_description(cleaner_transactions[i])])
        /\ TransactionCleaner_standardize_categories
           => C9_AllOrNothing(cleaner_transactions,
                 [i \in 1..Len(cleaner_transactions) |->
                     standardize_category_names(cleaner_transactions[i])])
      ]_vars

\* the transform changes the first record and raises on the second
C9_RaisesOnSecond(first, second) ==
    /\ ~first.raised
    /\ first.row # cleaner_transactions[1]
    /\ second.raised

\* a batch call raised on the second record of a batch whose first record
\* the transform would have changed, and the batch is as it was given
C9_Witness ==
    /\ result.op \in BatchMethods
    /\ result.raised
    /\ Len(cleaner_transactions) >= 2
    /\ cleaner_transactions = rows
    /\ C9_RaisesOnSecond(transform(result.op, cleaner_transactions[1]),
                         transform(result.op, cleaner_transactions[2]))

\* each record of the batch after one step, and whether the step raises
Step_outcome(outcomes) ==
    [failed |-> \E i \in 1..Len(outcomes) : outcomes[i].raised,
     records |-> [i \in 1..Len(outcomes) |-> outcomes[i].row]]

C10_Stopped(held) ==
    /\ result'.raised
    /\ cleaner_transactions' = held

C10_Deduplicated(held, unique) ==
    /\ ~result'.raised
    /\ cleaner_transactions' = unique
    /\ result'.value = Len(held) - Len(unique)

C10_Categories(held, step) ==
    IF step.failed THEN C10_Stopped(held)
    ELSE C10_Deduplicated(step.records,
                          remove_duplicate_transactions(step.records))

C10_Descriptions(held, step) ==
    IF step.failed THEN C10_Stopped(held)
    ELSE C10_Categories(step.records,
            Step_outcome(transformed("standardize_categories", step.records)))

C10_Dates(held, step) ==
    IF step.failed THEN C10_Stopped(held)
    ELSE C10_Descriptions(step.records,
            Step_outcome(transformed("clean_descriptions", step.records)))

\* C10: clean_all applies the steps in the order dates, descriptions,
\* categories, dedup and returns the number of duplicates the last step
\* removed; if a step raises, no later step is applied and the cleaner holds
\* the records produced by the steps before it.
C10_CleanAllInOrder ==
    [][ TransactionCleaner_clean_all
        => C10_Dates(cleaner_transactions,
              Step_outcome(transformed("normalize_dates", cleaner_transactions)))
      ]_vars

\* clean_all raised at the second step or later: the dates of the batch
\* given are rewritten, and a record still lacks its description or has an
\* empty category
C10_Witness ==
    /\ result.op = "clean_all"
    /\ result.raised
    /\ cleaner_transactions # rows
    /\ \A i \in 1..Len(rows) : ~normalize_date_format(rows[i]).raised
    /\ \E i \in 1..Len(cleaner_transactions) :
          \/ clean_transaction_description(cleaner_transactions[i]).raised
          \/ standardize_category_names(cleaner_transactions[i]).raised

\* the caller changed something it holds
C11_CallerMutates ==
    \/ Caller_mutates_given_row
    \/ Caller_mutates_returned_row
    \/ Caller_mutates_returned_list

\* C11: the cleaner never shares its storage with callers: changing the list
\* or a record returned by transactions, or the rows given to the
\* constructor, does not change what a later read of transactions returns,
\* before or after any cleaning step.
C11_StorageNotShared ==
    [][ C11_CallerMutates => cleaner_transactions' = cleaner_transactions ]_vars

\* after a deduplicate that removed a record, the caller holds a list read
\* from the cleaner and has changed both it and the rows it gave
C11_Witness ==
    /\ Len(cleaner_transactions) < Len(rows)
    /\ Len(cleaner_transactions) > 0
    /\ caller_view # << >>
    /\ caller_view[1] = tampered(cleaner_transactions[1])
    /\ Len(caller_rows) = Len(rows)
    /\ caller_rows[1] = tampered(rows[1])

\* the positions of the records that are the first of their key
C12_FirstPositions(keys) ==
    {i \in 1..Len(keys) : \A j \in 1..(i - 1) : keys[j] # keys[i]}

\* out is made of the records of rs at the positions given, in input order
C12_RecordsAt(out, rs, positions) ==
    /\ Len(out) = Cardinality(positions)
    /\ \A i \in positions :
          out[Cardinality({j \in positions : j <= i})] = rs[i]

\* C12: remove_duplicate_transactions returns the subsequence of its input,
\* in input order, made of the first record of each deduplication key, the
\* record as given and not a cleaned copy; applied to its own output it
\* removes nothing more.
C12_DedupKeepsFirstOriginals ==
    [][ (result'.op = "deduplicate" /\ TransactionCleaner_deduplicate)
        => /\ C12_RecordsAt(cleaner_transactions', cleaner_transactions,
                            C12_FirstPositions(keys_of(cleaner_transactions)))
           /\ remove_duplicate_transactions(cleaner_transactions')
                 = cleaner_transactions'
      ]_vars

\* deduplicate removed the second of two records: the one kept is the raw
\* first record, which still has its 'Date' and 'Description' keys
C12_Witness ==
    /\ result.op = "deduplicate"
    /\ result.value = 1
    /\ Len(rows) = 2
    /\ rows[1] # rows[2]
    /\ cleaner_transactions = <<rows[1]>>
    /\ has(rows[1], "Date")
    /\ has(rows[1], "Description")

\* the raw value a record carries for a field, under either spelling of
\* its key
C13_Raw(row, key, Key) == get(row, key, get(row, Key, <<"missing">>))

\* one amount is text, the other a number, and both are the same cents
C13_SameCents(text, number) ==
    /\ text[1] = "str"
    /\ number[1] = "num"
    /\ float_cents(strip(text[2])).ok
    /\ float_cents(strip(text[2])).cents = number[2]

\* two records with the same date, description and category, accounts that
\* differ only in letter case, and amounts equal in cents, one text and one
\* number
C13_SameButForCaseAndType(a, b) ==
    /\ C13_Raw(a, "date", "Date") = C13_Raw(b, "date", "Date")
    /\ C13_Raw(a, "description", "Description")
          = C13_Raw(b, "description", "Description")
    /\ ~has(a, "source") /\ ~has(b, "source")
    /\ C13_Raw(a, "category", "Category") = C13_Raw(b, "category", "Category")
    /\ C13_Raw(a, "account", "Account")[1] = "str"
    /\ C13_Raw(b, "account", "Account")[1] = "str"
    /\ C13_Raw(a, "account", "Account") # C13_Raw(b, "account", "Account")
    /\ lower(C13_Raw(a, "account", "Account")[2])
          = lower(C13_Raw(b, "account", "Account")[2])
    /\ \/ C13_SameCents(C13_Raw(a, "amount", "Amount"), C13_Raw(b, "amount", "Amount"))
       \/ C13_SameCents(C13_Raw(b, "amount", "Amount"), C13_Raw(a, "amount", "Amount"))

\* C13: two records with the same date, description and category, whose
\* accounts differ only in letter case and whose amounts are the same cents,
\* one as text and one as a number, have the same deduplication key;
\* deduplicate keeps one of them and returns 1, and the size of the cleaner
\* drops by exactly the count returned.
C13_CaseAndTypeDuplicates ==
    [][ (result'.op = "deduplicate" /\ TransactionCleaner_deduplicate)
        => /\ Len(cleaner_transactions')
                 = Len(cleaner_transactions) - result'.value
           /\ \A i, j \in 1..Len(cleaner_transactions) :
                 (i < j /\ C13_SameButForCaseAndType(cleaner_transactions[i],
                                                     cleaner_transactions[j]))
                 => /\ duplicate_key(cleaner_transactions[i])
                          = duplicate_key(cleaner_transactions[j])
                    /\ result'.value >= 1
                    /\ Len(cleaner_transactions) = 2
                          => /\ result'.value = 1
                             /\ cleaner_transactions' = <<cleaner_transactions[1]>>
      ]_vars

\* deduplicate was called on two such records and one is left
C13_Witness ==
    /\ result.op = "deduplicate"
    /\ result.value = 1
    /\ Len(rows) = 2
    /\ C13_SameButForCaseAndType(rows[1], rows[2])
    /\ cleaner_transactions = <<rows[1]>>

----------------------------------------------------------------------------
(* Properties of canonicalization *)

\* the positions deduplication keeps once the passes have left the rows done
C14_KeptAfter(done) == C12_FirstPositions(keys_of(done.stored))

\* deduplication keeps the same positions of a batch before and after its
\* normalization, when the normalization succeeds
C14_SameKept(rs, done) ==
    done.raised \/ C12_FirstPositions(keys_of(rs)) = C14_KeptAfter(done)

\* C14: whenever clean_all succeeds on a batch (so the three normalization
\* passes succeeded on it), remove_duplicate_transactions keeps the same
\* input positions of the raw batch as it keeps of the normalized batch, and
\* the number clean_all removes is the number deduplicate alone would remove.
C14_DedupBeforeOrAfter ==
    [][(result'.op = "clean_all" /\ ~result'.raised
        /\ TransactionCleaner_clean_all)
       => /\ C14_SameKept(cleaner_transactions, normalized(cleaner_transactions))
          /\ result'.value = deduplicate(cleaner_transactions).value]_vars

\* the records applied to a second time give themselves
C15_Unchanged(rs, again) == ~again.raised /\ again.stored = rs

\* C15: the records a successful clean_all leaves are records on which the
\* three transforms succeeded; applying the three transforms to them a second
\* time succeeds and gives the same records.
C15_CanonicalizationIdempotent ==
    (result.op = "clean_all" /\ ~result.raised)
    => C15_Unchanged(cleaner_transactions, normalized(cleaner_transactions))

\* the categories applied to a second time give themselves
C16_Fixed(rs, again) == ~again.raised /\ again.stored = rs

\* C16: the records a successful standardize_categories leaves have the
\* output category of one application of standardize_category_names (from
\* the exact table, a fragment, or the title-case fallback); a second
\* application succeeds and maps every one of them to itself.
C16_CategoryIdempotent ==
    (result.op = "standardize_categories" /\ ~result.raised)
    => C16_Fixed(cleaner_transactions,
                 batch("standardize_categories", cleaner_transactions))

\* text of the form YYYY-MM-DD: four digits, two digits, two digits
C17_Iso(value) ==
    /\ value[1] = "str"
    /\ Len(value[2]) = 10
    /\ \A i \in 1..10 : IF i \in {5, 8} THEN value[2][i] = "-"
                         ELSE isdigit(value[2][i])

C17_RawDate(row) == get(row, "date", get(row, "Date", NoneValue))

\* the formats that take the text, by their place in the order tried
C17_Taking(s) == {k \in 1..4 : strptime(s, fmts[k]).ok}

\* a record with neither key, an empty or None value, or a value that no
\* format takes
C17_Unusable(row, raw) ==
    \/ ~has(row, "date") /\ ~has(row, "Date")
    \/ raw = NoneValue
    \/ strip(str(raw)) = << >>
    \/ C17_Taking(strip(str(raw))) = {}

\* the date written is the one the first format taking the text reads
C17_FirstMatchWins(s, written) ==
    \A k \in C17_Taking(s) :
        (\A j \in 1..(k - 1) : j \notin C17_Taking(s))
        => strptime(written[2], fmts[1]) = strptime(s, fmts[k])

C17_Record(row, raw, out) ==
    /\ has(out, "date") /\ ~has(out, "Date")
    /\ C17_Iso(get(out, "date", NoneValue))
    /\ C17_Iso(raw) => get(out, "date", NoneValue) = raw
    /\ C17_FirstMatchWins(strip(str(raw)), get(out, "date", NoneValue))
    /\ \A k \in (DOMAIN row) \ {"date", "Date"} :
           has(out, k) /\ out[k] = row[k]

\* C17: normalize_date_format, applied to each stored record by
\* normalize_dates, gives a new record (what the caller holds is unchanged
\* and not stored) whose 'date' is YYYY-MM-DD text, with no 'Date' key and
\* every other field kept; a date already YYYY-MM-DD is unchanged; the date
\* is the one read by the first of the four formats that takes the text; and
\* it raises exactly when some record has neither key, an empty or None
\* value, or a value no format takes.
C17_NormalizeDateFormat ==
    [][(result'.op = "normalize_dates" /\ TransactionCleaner_normalize_dates)
       => /\ caller_rows' = caller_rows
          /\ nothing_shared'
          /\ result'.raised
               = (\E i \in 1..Len(cleaner_transactions) :
                     C17_Unusable(cleaner_transactions[i],
                                  C17_RawDate(cleaner_transactions[i])))
          /\ ~result'.raised
               => \A i \in 1..Len(cleaner_transactions) :
                     C17_Record(cleaner_transactions[i],
                                C17_RawDate(cleaner_transactions[i]),
                                cleaner_transactions'[i])]_vars

----------------------------------------------------------------------------
(* Properties of the alert rules and the monitor *)

\* the amount parses as a number whose magnitude reaches the threshold
C18_LargeByMagnitude(amount, threshold) ==
    amount.ok /\ Abs(amount.cents) >= threshold

\* the records the rule is to flag
C18_ToFlag(txs, rule) ==
    {i \in 1..Len(txs) :
        C18_LargeByMagnitude(float_or_error(get(txs[i], "amount", NoneValue)),
                             rule.threshold)}

\* the alerts a rule gave
C18_AlertsOf(alerts, rule) == {k \in 1..Len(alerts) : alerts[k].name = rule.name}

\* C18: in the alerts run_full_analysis returns, a LargeTransactionRule has
\* one alert for each cleaned record whose amount parses as a number with
\* abs(amount) >= threshold, and none for any other record (a missing or
\* unparseable amount gives no alert and no error).
C18_LargeFlagsMagnitude ==
    (result.op = "run_full_analysis" /\ ~result.raised)
    => /\ analysis.returned
       /\ \A j \in 1..Len(rules) :
             rules[j].kind = "large"
             => Cardinality(C18_AlertsOf(analysis.alerts, rules[j]))
                  = Cardinality(C18_ToFlag(cleaner_transactions, rules[j]))

\* the (record, rule) pairs whose check gives a message
C19_Hits(txs, rs) ==
    {p \in (1..Len(txs)) \X (1..Len(rs)) : check(rs[p[2]], txs[p[1]]).alert}

\* the place of a pair among the hits, records first and rules second
C19_Place(p, hits) ==
    1 + Cardinality({q \in hits : q[1] < p[1] \/ (q[1] = p[1] /\ q[2] < p[2])})

\* one alert per hit, each at its place
C19_InOrder(alerts, txs, rs, hits) ==
    /\ Len(alerts) = Cardinality(hits)
    /\ \A p \in hits : alerts[C19_Place(p, hits)] = check(rs[p[2]], txs[p[1]])

\* what clean_all does from the rows stored
C19_Cleaned(done, stored) ==
    /\ stored = done.stored
    /\ result'.raised = done.raised
    /\ IF done.raised THEN ~analysis'.returned
       ELSE /\ analysis'.returned
            /\ C19_InOrder(analysis'.alerts, stored, rules,
                           C19_Hits(stored, rules))

\* C19: run_full_analysis leaves the rows as clean_all leaves them; when
\* clean_all raises it raises and returns no alert list; otherwise the list
\* it returns has exactly one alert for each (cleaned record, rule) pair whose
\* check gives a message, the alerts of record i before those of record i+1
\* and, within a record, in the order of the rules list.
C19_AlertsRecordMajor ==
    [][StatementMonitor_run_full_analysis
       => C19_Cleaned(run_methods(clean_all_order, cleaner_transactions),
                      cleaner_transactions')]_vars

\* two cleaned records, the first with an alert from each of three rules and
\* the second with fewer: the two orders differ
C19_Witness ==
    /\ result.op = "run_full_analysis"
    /\ analysis.returned
    /\ Len(cleaner_transactions) = 2
    /\ Len(rules) = 3
    /\ Len(analysis.alerts) = 4
    /\ analysis.alerts[1].name # analysis.alerts[2].name
    /\ analysis.alerts[1].name = analysis.alerts[4].name

----------------------------------------------------------------------------
(* Properties of the Transaction constructor *)

\* a str that is not blank
C20_Named(value) == value[1] = "str" /\ strip(value[2]) # << >>

\* the places, in the order id, amount, date, category, account_id, type,
\* description, of the arguments that are not valid
C20_Invalid(a) ==
    {n \in 1..7 :
        CASE n = 1 -> ~C20_Named(a.transaction_id)
          [] n = 2 -> ~(a.amount[1] = "num" /\ a.amount[2] > 0
                        /\ a.amount[2] <= MAX_AMOUNT_CENTS)
          [] n = 3 -> ~(a.date[1] = "str" /\ strptime(a.date[2], fmts[1]).ok
                        /\ ~later_than(strptime(a.date[2], fmts[1]), today))
          [] n = 4 -> ~(C20_Named(a.category)
                        /\ \E i \in 1..Len(a.category[2]) :
                              islower(lower_char(a.category[2][i])))
          [] n = 5 -> ~C20_Named(a.account_id)
          [] n = 6 -> a.transaction_type \notin {"debit", "credit"}
          [] n = 7 -> ~(a.description[1] = "str" /\ Len(a.description[2]) <= 500)}

\* the argument each error message is about
C20_About(message) ==
    CASE message \in {"Transaction ID must be a string",
                      "Transaction ID cannot be empty"} -> 1
      [] message \in {"Amount must be a number", "Invalid amount"} -> 2
      [] message \in {"Date must be a string", "Invalid date"} -> 3
      [] message \in {"Category must be a string", "Invalid category",
                      "Category cannot be empty or only whitespace"} -> 4
      [] message \in {"Account ID must be a string",
                      "Account ID cannot be empty"} -> 5
      [] message = "Transaction type must be 'debit' or 'credit'" -> 6
      [] message \in {"Description must be a string", "object has no len()",
                      "Description cannot exceed 500 characters",
                      "object has no attribute 'strip'"} -> 7
      [] OTHER -> 0

C20_Outcome(invalid) ==
    IF invalid = {}
    THEN /\ ~result'.raised
         /\ created'.exists
         /\ transaction_count' = transaction_count + 1
    ELSE /\ result'.raised
         /\ C20_About(result'.reason) \in invalid
         /\ \A n \in invalid : C20_About(result'.reason) <= n
         /\ created' = created
         /\ transaction_count' = transaction_count

\* C20: a call Transaction(...) with one or more invalid arguments raises the
\* error of the earliest invalid one in the order id, amount, date, category,
\* account_id, type, description, and leaves no object (none is created and
\* none is counted); a call with every argument valid gives an object.
C20_EarliestInvalidFieldRaises ==
    [][Transaction_new => C20_Outcome(C20_Invalid(arguments))]_vars

\* the amounts the validation is to accept
C21_InRange(amount) ==
    amount # NaN /\ amount[1] = "num" /\ 0 < amount[2]
    /\ amount[2] <= MAX_AMOUNT_CENTS

\* C21: a call Transaction(...) whose id is valid gets past the validation of
\* the amount (it raises no error about the amount) if and only if
\* 0 < amount <= 1,000,000.
C21_AmountAcceptedIffInRange ==
    [][(Transaction_new /\ C20_Named(arguments.transaction_id))
       => ((C20_About(result'.reason) # 2) <=> C21_InRange(arguments.amount))]_vars

\* C22: once the constructor has returned, no operation on the Transaction
\* (a property read or assigned, to_dict) changes any of its fields: the
\* object reads the same before and after every step that is not a new
\* construction.
C22_TransactionImmutable ==
    [][(created.exists /\ result'.op # "Transaction") => created' = created]_vars

----------------------------------------------------------------------------
(* Properties of the accounts, continued *)

\* C23: across every operation on an account (add_transaction,
\* apply_monthly_fees, write_check, can_withdraw, get_transactions) and every
\* change the caller makes to the list get_transactions returned, the
\* account's sequence before is a prefix of the sequence after; the caller's
\* change leaves the sequence and the balance as they were.
C23_AppendOnly ==
    [][/\ Len(transactions) <= Len(transactions')
       /\ SubSeq(transactions', 1, Len(transactions)) = transactions
       /\ Caller_mutates_account_list
            => (transactions' = transactions /\ balance' = balance)]_vars

\* the caller has shortened the list it was given, and the account still
\* holds every transaction
C23_Witness ==
    /\ result.op = "get_transactions"
    /\ Len(transactions) >= 2
    /\ Len(caller_view) < Len(transactions)

----------------------------------------------------------------------------
(* Properties of CheckingAccount.write_check *)

\* the conditions C24 names for a rejection
C24_ToReject(check_number, amount) ==
    \/ InSeq(check_number, checks_written)
    \/ amount <= 0
    \/ ~float_le(float_of_cents(amount),
                 float_available_funds(transactions, cfg))

C24_NoDuplicates ==
    \A i, j \in 1..Len(checks_written) :
        checks_written[i] = checks_written[j] => i = j

C24_WithinOverdraft ==
    float_le(float_negated(float_of_cents(cfg.overdraft_limit)),
             float_balance(transactions))

\* C24: write_check rejects a check number already written, a non-positive
\* amount and an amount above balance + overdraft_limit; a rejected call
\* leaves the transaction list and checks_written as they were, an accepted
\* call appends one debit and records the check number once; so in every
\* state reached through write_check alone checks_written has no duplicates
\* and balance >= -overdraft_limit.
C24_WriteCheckGuards ==
    /\ [][\A n \in CheckNumbers \cup {1003}, a \in CheckAmounts :
            write_check(n, a) =>
              /\ C24_ToReject(n, a) => result'.raised
              /\ result'.raised =>
                    UNCHANGED <<transactions, checks_written>>
              /\ ~result'.raised =>
                    /\ Len(transactions') = Len(transactions) + 1
                    /\ SubSeq(transactions', 1, Len(transactions)) = transactions
                    /\ transactions'[Len(transactions')].transaction_type = "debit"
                    /\ transactions'[Len(transactions')].amount = a
                    /\ checks_written' = Append(checks_written, n)]_vars
    /\ [](C24_NoDuplicates /\ C24_WithinOverdraft)

----------------------------------------------------------------------------
(* Properties of the savings withdrawal counter *)

\* the counter as can_withdraw and withdrawals_remaining read it after
\* add_transaction left the account in the state of the primed variables
C25_CountAfter ==
    IF last_withdrawal_month' # current_month THEN 0
    ELSE withdrawal_count_this_month'

\* C25: in a SavingsAccount every add_transaction that raises (withdrawal
\* denied, or a transaction of another account) leaves the withdrawal
\* counter as it was, and in every reachable state the counter is at most
\* the number of debits appended to the account in the current month.
C25_CounterFollowsAcceptedDebits ==
    /\ [][\A txn \in CallerTransactions :
            (SavingsAccount_add_transaction(txn) /\ result'.raised)
               => C25_CountAfter = EffectiveCount]_vars
    /\ [](cfg.kind = "savings" => EffectiveCount <= debits_added_this_month)

\* C26: the withdrawal limit is per calendar month.  In a later calendar
\* month, the same month number of a following year included, with no
\* withdrawal since the month began, the counter counts as reset and
\* can_withdraw(a) for an amount within the available funds returns
\* (True, '').
C26_ResetsInLaterMonth ==
    [][\A a \in AskAmounts :
         ( /\ result.op = "tick"
           /\ SavingsAccount_can_withdraw(a)
           /\ cfg.monthly_withdrawal_limit > 0
           /\ a > 0
           /\ a <= Savings_calculate_available_funds(balance, cfg) )
         => (result'.allowed /\ result'.reason = "")]_vars

\* C27: for a SavingsAccount, after any sequence of add_transaction calls
\* the balance is not negative and calculate_available_funds is not
\* negative; immediately after every accepted debit the balance is at least
\* minimum_balance.
C27_SavingsNeverOverdrawn ==
    /\ [](/\ float_le(float_zero, float_balance(transactions))
          /\ float_le(float_zero, float_savings_available(transactions, cfg)))
    /\ [][\A txn \in SmallTransactions :
            ( /\ add_transaction(txn)
              /\ txn.transaction_type = "debit"
              /\ ~result'.raised )
            => float_le(float_of_cents(cfg.minimum_balance),
                        float_balance(transactions'))]_vars

----------------------------------------------------------------------------
(* Properties of CheckingAccount.apply_monthly_fees *)

\* C28: for every CheckingAccount the constructor accepts, one with
\* monthly_fee = 0 included, apply_monthly_fees does not raise and returns 0
\* or monthly_fee; with monthly_fee = 0 it returns 0 and leaves the balance
\* as it was, also when balance < minimum_balance.
C28_FeesNeverRaise ==
    [][CheckingAccount_apply_monthly_fees
         => /\ ~result'.raised
            /\ result'.value \in {0, cfg.monthly_fee}
            /\ cfg.monthly_fee = 0
                  => (result'.value = 0 /\ balance' = balance)]_vars

----------------------------------------------------------------------------
(* Properties of repeated cleaning *)

\* C29: after a clean_all that succeeded, a second clean_all succeeds,
\* returns 0 duplicates removed and leaves the stored transactions as they
\* were.
C29_CleanAllIdempotent ==
    [][(result.op = "clean_all" /\ ~result.raised
        /\ TransactionCleaner_clean_all)
       => /\ ~result'.raised
          /\ result'.value = 0
          /\ cleaner_transactions' = cleaner_transactions]_vars

----------------------------------------------------------------------------
(* Properties of the default rules *)

\* an input record whose raw category is 'Dining' and whose amount exceeds
\* the limit
C30_OverLimit(amount, limit) == amount.ok /\ amount.cents > limit

C30_DiningOver(tx, limit) ==
    /\ get(tx, "category", NoneValue) = Str("Dining")
    /\ C30_OverLimit(float_or_error(get(tx, "amount", NoneValue)), limit)

\* C30: with the default rules, run_full_analysis gives a 'Dining
\* per-transaction limit' alert for every input record whose raw category is
\* 'Dining' and whose amount exceeds 120.
C30_DefaultDiningRuleFires ==
    (result.op = "run_full_analysis" /\ ~result.raised /\ rules = default_rules)
    => \A i \in 1..Len(rows) :
          C30_DiningOver(rows[i], 12000)
          => \E k \in 1..Len(analysis.alerts) :
                /\ analysis.alerts[k].name = "Dining per-transaction limit"
                /\ analysis.alerts[k].detail
                     = Num(float_or_error(get(rows[i], "amount", NoneValue)).cents)

====
